---- MODULE Spec2Model ----
(***************************************************************************)
(* Model of the server-side event batching emitter of frozen_workflow      *)
(* (backend/src/services/workflowEventEmitter.ts, class                    *)
(* WorkflowEventEmitter) together with the Node.js timer facility it uses  *)
(* (setTimeout / clearTimeout).                                            *)
(*                                                                         *)
(* Strings that the code concatenates are modelled as sequences of         *)
(* one-character strings, so that the queue key is computed the way the    *)
(* template literal `${socketId}:${workflowId}` computes it.               *)
(***************************************************************************)
EXTENDS Integers, Sequences, FiniteSets, TLC

(***************************************************************************)
(* Bounds of the model.                                                    *)
(***************************************************************************)
\* total number of emitNodeEvent calls explored
MaxEmits == 5
\* number of emitNodeEvent calls explored under the fair specification
MaxEmitsLive == 3

(***************************************************************************)
(* Program constants.                                                      *)
(***************************************************************************)
\* config.batchSize || 10
DefaultBatchSize == 10
\* config.batchWindow || 100
DefaultBatchWindow == 100

(***************************************************************************)
(* Input domains.                                                          *)
(***************************************************************************)
\* socket ids (socket.id of a connected client); the ids that socket.io
\* generates never contain the character ":"
SocketIds == { <<"s">>, <<"s", "1">> }
\* workflow ids (the execute handler builds "workflow-<ms>")
WorkflowIds == { <<"w">>, <<"1", "w">> }
\* the (socketId, workflowId) pairs under which events are emitted
Pairs == SocketIds \X WorkflowIds
\* values of EventEmitterConfig.batchSize; 0 stands for "not given" (and for
\* the number 0, which `||` treats alike)
ConfigBatchSizes == { 0, 1, 2, 3 }

VARIABLES
  config,        \* this.config : Required<EventEmitterConfig>
  eventQueues,   \* this.eventQueues : Map<string, NodeEvent[]>
  batchTimers,   \* this.batchTimers : Map<string, NodeJS.Timeout> (key -> handle)
  timers,        \* the runtime's scheduled, not yet fired or cleared timeouts
  io,            \* socketId -> messages given to io.to(socketId).emit, in order
  emitted,       \* history: pair -> events passed to emitNodeEvent, in order
  lastOp,        \* history: the operation that ran last, its arguments and the
                 \* number of messages it delivered
  clock          \* number of emitNodeEvent calls so far

vars == << config, eventQueues, batchTimers, timers, io, emitted, lastOp, clock >>

\* the server process around the emitter (socket handlers, workflow runs)
VARIABLES
  runs,          \* the runs started by simulateWorkflowExecution, in start order
  serverNow      \* Date.now() of the server process

serverVars == << runs, serverNow >>

\* the client: the zustand store that the socket service feeds
VARIABLES
  nodeStates,    \* useStore.getState().nodeStates : Map<string, NodeExecutionState>
  execution,     \* the store's workflowId, isExecuting and executionStartTime
  clientNow,     \* Date.now() of the client
  published,     \* history: the nodeStates maps that the last operation gave to
                 \* set(), in order; subscribers see each of them
  storeOp,       \* history: the store operation that ran last, with its arguments
  logSeq,        \* number of log lines produced so far
  envelopes      \* history: the envelope timestamp of the last node event
                 \* received for each entity, and whether they arrived in order

storeVars ==
  << nodeStates, execution, clientNow, published, storeOp, logSeq, envelopes >>

\* the client's socket service (transport session) and the socket it owns
VARIABLES
  socket,             \* this.socket : Socket | null, with the socket's own state
  isQueueing,         \* this.isQueueing
  eventQueue,         \* this.eventQueue : Array<{ event, data }>
  reconnectAttempts,  \* this.reconnectAttempts
  wire,               \* history: the commands written to the connection, in order
  issued,             \* history: number of commands handed to emitEvent
  held,               \* history: the commands issued while isQueueing was true
                      \* and this.socket was not connected
  connectPromise,     \* the promise that the last call of connect() returned
  replaced            \* the sockets of earlier calls of connect(), which
                      \* this.socket no longer names, each with its promise

transportVars ==
  << socket, isQueueing, eventQueue, reconnectAttempts, wire, issued, held,
     connectPromise, replaced >>

allVars == << vars, serverVars, storeVars, transportVars >>

(***************************************************************************)
(* Helpers for Map.                                                        *)
(***************************************************************************)
MapHas(m, k) == k \in DOMAIN m
MapSet(m, k, v) == [x \in (DOMAIN m) \cup {k} |-> IF x = k THEN v ELSE m[x]]
MapDelete(m, k) == [x \in (DOMAIN m) \ {k} |-> m[x]]
EmptyMap == [x \in {} |-> 0]

\* the queue key without the separator: `${socketId}${workflowId}`
queueKey_NoSeparator(socketId, workflowId) == socketId \o workflowId

\* const queueKey = `${socketId}:${workflowId}`
queueKey(socketId, workflowId) == socketId \o <<":">> \o workflowId

\* clearTimeout(handle): the timeout with that handle will not fire
clearTimeout(ts, handle) == { t \in ts : t.id # handle }

\* this.io.to(socketId).emit(name, payload)
ioEmit(out, socketId, name, payload) ==
  [out EXCEPT ![socketId] = Append(@, [name |-> name, payload |-> payload])]

\* constructor: batchSize: config.batchSize || 10, batchWindow: config.batchWindow || 100
constructor(cfg) ==
  [ batchSize   |-> IF cfg.batchSize = 0 THEN DefaultBatchSize ELSE cfg.batchSize,
    batchWindow |-> IF cfg.batchWindow = 0 THEN DefaultBatchWindow ELSE cfg.batchWindow ]

(***************************************************************************)
(* The emitter's mutable state as one record, so that the methods can call *)
(* each other as the code does.                                            *)
(***************************************************************************)
State == [ eventQueues |-> eventQueues, batchTimers |-> batchTimers,
           timers |-> timers, io |-> io ]

\* flushBatch without `this.batchTimers.delete(queueKey)`
flushBatch_KeepTimerEntry(st, socketId, workflowId, key) ==
  IF ~MapHas(st.eventQueues, key) \/ Len(st.eventQueues[key]) = 0
  THEN st
  ELSE LET queue == st.eventQueues[key]
           hasTimer == MapHas(st.batchTimers, key)
       IN [ eventQueues |-> MapDelete(st.eventQueues, key),
            batchTimers |-> st.batchTimers,
            timers      |-> IF hasTimer THEN clearTimeout(st.timers, st.batchTimers[key])
                            ELSE st.timers,
            io          |-> ioEmit(st.io, socketId, "workflow:node-events-batch",
                                   [ count      |-> Len(queue),
                                     events     |-> queue,
                                     workflowId |-> workflowId ]) ]

\* flushBatch without `this.eventQueues.delete(queueKey)`
flushBatch_KeepQueue(st, socketId, workflowId, key) ==
  IF ~MapHas(st.eventQueues, key) \/ Len(st.eventQueues[key]) = 0
  THEN st
  ELSE LET queue == st.eventQueues[key]
           hasTimer == MapHas(st.batchTimers, key)
       IN [ eventQueues |-> st.eventQueues,
            batchTimers |-> IF hasTimer THEN MapDelete(st.batchTimers, key)
                            ELSE st.batchTimers,
            timers      |-> IF hasTimer THEN clearTimeout(st.timers, st.batchTimers[key])
                            ELSE st.timers,
            io          |-> ioEmit(st.io, socketId, "workflow:node-events-batch",
                                   [ count      |-> Len(queue),
                                     events     |-> queue,
                                     workflowId |-> workflowId ]) ]

\* flushBatch without `clearTimeout(timer)`
flushBatch_NoClearTimeout(st, socketId, workflowId, key) ==
  IF ~MapHas(st.eventQueues, key) \/ Len(st.eventQueues[key]) = 0
  THEN st
  ELSE LET queue == st.eventQueues[key]
           hasTimer == MapHas(st.batchTimers, key)
       IN [ eventQueues |-> MapDelete(st.eventQueues, key),
            batchTimers |-> IF hasTimer THEN MapDelete(st.batchTimers, key)
                            ELSE st.batchTimers,
            timers      |-> st.timers,
            io          |-> ioEmit(st.io, socketId, "workflow:node-events-batch",
                                   [ count      |-> Len(queue),
                                     events     |-> queue,
                                     workflowId |-> workflowId ]) ]

\* flushBatch without the early return on an absent or empty queue
flushBatch_NoEmptyCheck(st, socketId, workflowId, key) ==
  LET queue == IF MapHas(st.eventQueues, key) THEN st.eventQueues[key] ELSE <<>>
      hasTimer == MapHas(st.batchTimers, key)
  IN [ eventQueues |-> MapDelete(st.eventQueues, key),
       batchTimers |-> IF hasTimer THEN MapDelete(st.batchTimers, key)
                       ELSE st.batchTimers,
       timers      |-> IF hasTimer THEN clearTimeout(st.timers, st.batchTimers[key])
                       ELSE st.timers,
       io          |-> ioEmit(st.io, socketId, "workflow:node-events-batch",
                              [ count      |-> Len(queue),
                                events     |-> queue,
                                workflowId |-> workflowId ]) ]

\* private flushBatch(socketId, workflowId, queueKey)
flushBatch(st, socketId, workflowId, key) ==
  IF ~MapHas(st.eventQueues, key) \/ Len(st.eventQueues[key]) = 0
  THEN st
  ELSE LET queue == st.eventQueues[key]
           hasTimer == MapHas(st.batchTimers, key)
       IN [ eventQueues |-> MapDelete(st.eventQueues, key),
            batchTimers |-> IF hasTimer THEN MapDelete(st.batchTimers, key)
                            ELSE st.batchTimers,
            timers      |-> IF hasTimer THEN clearTimeout(st.timers, st.batchTimers[key])
                            ELSE st.timers,
            io          |-> ioEmit(st.io, socketId, "workflow:node-events-batch",
                                   [ count      |-> Len(queue),
                                     events     |-> queue,
                                     workflowId |-> workflowId ]) ]

\* emitNodeEvent without the size check: flushes are left to the timeout
emitNodeEvent_NoSizeCheck(st, socketId, workflowId, event, handle) ==
  LET key    == queueKey(socketId, workflowId)
      q0     == IF MapHas(st.eventQueues, key) THEN st.eventQueues[key] ELSE <<>>
      queue  == Append(q0, event)
      pushed == [st EXCEPT !.eventQueues = MapSet(st.eventQueues, key, queue)]
  IN IF ~MapHas(st.batchTimers, key)
     THEN [pushed EXCEPT
             !.timers = @ \cup { [ id |-> handle, socketId |-> socketId,
                                   workflowId |-> workflowId, queueKey |-> key ] },
             !.batchTimers = MapSet(st.batchTimers, key, handle)]
     ELSE pushed

\* emitNodeEvent with `queue.unshift(event)` for `queue.push(event)`
emitNodeEvent_Unshift(st, socketId, workflowId, event, handle) ==
  LET key    == queueKey(socketId, workflowId)
      q0     == IF MapHas(st.eventQueues, key) THEN st.eventQueues[key] ELSE <<>>
      queue  == <<event>> \o q0
      pushed == [st EXCEPT !.eventQueues = MapSet(st.eventQueues, key, queue)]
  IN IF Len(queue) >= config.batchSize
     THEN flushBatch(pushed, socketId, workflowId, key)
     ELSE IF ~MapHas(st.batchTimers, key)
     THEN [pushed EXCEPT
             !.timers = @ \cup { [ id |-> handle, socketId |-> socketId,
                                   workflowId |-> workflowId, queueKey |-> key ] },
             !.batchTimers = MapSet(st.batchTimers, key, handle)]
     ELSE pushed

\* emitNodeEvent with `queue.length > batchSize` for `>=`
emitNodeEvent_GreaterThan(st, socketId, workflowId, event, handle) ==
  LET key    == queueKey(socketId, workflowId)
      q0     == IF MapHas(st.eventQueues, key) THEN st.eventQueues[key] ELSE <<>>
      queue  == Append(q0, event)
      pushed == [st EXCEPT !.eventQueues = MapSet(st.eventQueues, key, queue)]
  IN IF Len(queue) > config.batchSize
     THEN flushBatch(pushed, socketId, workflowId, key)
     ELSE IF ~MapHas(st.batchTimers, key)
     THEN [pushed EXCEPT
             !.timers = @ \cup { [ id |-> handle, socketId |-> socketId,
                                   workflowId |-> workflowId, queueKey |-> key ] },
             !.batchTimers = MapSet(st.batchTimers, key, handle)]
     ELSE pushed

\* emitNodeEvent(socketId, workflowId, event); `handle` is the value that
\* setTimeout returns if the call arms a timeout
emitNodeEvent(st, socketId, workflowId, event, handle) ==
  LET key    == queueKey(socketId, workflowId)
      q0     == IF MapHas(st.eventQueues, key) THEN st.eventQueues[key] ELSE <<>>
      queue  == Append(q0, event)
      pushed == [st EXCEPT !.eventQueues = MapSet(st.eventQueues, key, queue)]
  IN IF Len(queue) >= config.batchSize
     THEN flushBatch(pushed, socketId, workflowId, key)
     ELSE IF ~MapHas(st.batchTimers, key)
     THEN [pushed EXCEPT
             !.timers = @ \cup { [ id |-> handle, socketId |-> socketId,
                                   workflowId |-> workflowId, queueKey |-> key ] },
             !.batchTimers = MapSet(st.batchTimers, key, handle)]
     ELSE pushed

\* cleanup that releases every timer (`this.batchTimers.clear()`) instead of
\* the timer of its own key
cleanup_ClearAllTimers(st, socketId, workflowId) ==
  LET key     == queueKey(socketId, workflowId)
      flushed == flushBatch(st, socketId, workflowId, key)
  IN [flushed EXCEPT !.timers = {}, !.batchTimers = EmptyMap]

\* cleanup without the call of flushBatch
cleanup_NoFlush(st, socketId, workflowId) ==
  LET key == queueKey(socketId, workflowId)
  IN IF MapHas(st.batchTimers, key)
     THEN [st EXCEPT !.timers = clearTimeout(@, st.batchTimers[key]),
                     !.batchTimers = MapDelete(@, key)]
     ELSE st

\* cleanup(socketId, workflowId)
cleanup(st, socketId, workflowId) ==
  LET key     == queueKey(socketId, workflowId)
      flushed == flushBatch(st, socketId, workflowId, key)
  IN IF MapHas(flushed.batchTimers, key)
     THEN [flushed EXCEPT !.timers = clearTimeout(@, flushed.batchTimers[key]),
                          !.batchTimers = MapDelete(@, key)]
     ELSE flushed

\* the callback given to setTimeout in emitNodeEvent, run when timeout t
\* expires (an expired timeout is no longer scheduled)
timerCallback(st, t) ==
  flushBatch([st EXCEPT !.timers = @ \ {t}], t.socketId, t.workflowId, t.queueKey)

(***************************************************************************)
(* Actions.                                                                *)
(***************************************************************************)
Commit(st) ==
  /\ eventQueues' = st.eventQueues
  /\ batchTimers' = st.batchTimers
  /\ timers' = st.timers
  /\ io' = st.io

\* number of messages that the run of an operation ending in st delivered
RECURSIVE SumOver(_, _)
SumOver(f, S) ==
  IF S = {} THEN 0
  ELSE LET x == CHOOSE y \in S : TRUE IN f[x] + SumOver(f, S \ {x})
Sent(st) == SumOver([s \in SocketIds |-> Len(st.io[s]) - Len(io[s])], SocketIds)
OpRecord(op, s, w, st) ==
  [ op |-> op, socketId |-> s, workflowId |-> w, sent |-> Sent(st) ]

\* the n-th event emitted under a pair: node ids differ between pairs and
\* timestamps grow within a pair, so every emitted event is distinct
EventOf(s, w, n) ==
  [ nodeId |-> <<s, w>>, eventType |-> "start", timestamp |-> n ]

\* no client has connected to the server yet
ServerIdle ==
  /\ runs = <<>>
  /\ serverNow = 1

\* the store as create() leaves it
StoreIdle ==
  /\ nodeStates = EmptyMap
  /\ execution = [ isExecuting |-> FALSE ]
  /\ clientNow = 1
  /\ published = <<>>
  /\ storeOp = [op |-> "new"]
  /\ logSeq = 0
  /\ envelopes = [ last |-> EmptyMap, ordered |-> TRUE ]

\* this.socket = null
NullSocket == << >>

\* the socket service as its constructor leaves it
TransportIdle ==
  /\ socket = NullSocket
  /\ isQueueing = FALSE
  /\ eventQueue = << >>
  /\ reconnectAttempts = 0
  /\ wire = << >>
  /\ issued = 0
  /\ held = { }
  /\ connectPromise = "none"
  /\ replaced = << >>

Init ==
  /\ \E bs \in ConfigBatchSizes :
        config = constructor([batchSize |-> bs, batchWindow |-> 0])
  /\ eventQueues = EmptyMap
  /\ batchTimers = EmptyMap
  /\ timers = {}
  /\ io = [s \in SocketIds |-> <<>>]
  /\ emitted = [p \in Pairs |-> <<>>]
  /\ lastOp = [op |-> "new", socketId |-> <<>>, workflowId |-> <<>>, sent |-> 0]
  /\ clock = 0
  /\ ServerIdle
  /\ StoreIdle
  /\ TransportIdle

Emit(max) ==
  /\ clock < max
  /\ \E p \in Pairs :
       LET s == p[1]
           w == p[2]
           n == Len(emitted[p]) + 1
           event == EventOf(s, w, n)
           st == emitNodeEvent(State, s, w, event, <<s, w, n>>)
       IN /\ Commit(st)
          /\ emitted' = [emitted EXCEPT ![p] = Append(@, event)]
          /\ lastOp' = OpRecord("emit", s, w, st)
  /\ clock' = clock + 1
  /\ UNCHANGED << config, serverVars, storeVars, transportVars >>

TimerFire(p) ==
  /\ \E t \in timers :
       /\ t.socketId = p[1]
       /\ t.workflowId = p[2]
       /\ Commit(timerCallback(State, t))
       /\ lastOp' = OpRecord("timer", p[1], p[2], timerCallback(State, t))
  /\ UNCHANGED << config, emitted, clock, serverVars, storeVars, transportVars >>

Cleanup ==
  /\ \E p \in Pairs :
       /\ Commit(cleanup(State, p[1], p[2]))
       /\ lastOp' = OpRecord("cleanup", p[1], p[2], cleanup(State, p[1], p[2]))
  /\ UNCHANGED << config, emitted, clock, serverVars, storeVars, transportVars >>

NextB(max) ==
  \/ Emit(max)
  \/ \E p \in Pairs : TimerFire(p)
  \/ Cleanup

Next == NextB(MaxEmits)

Spec == Init /\ [][Next]_vars

\* the runtime fires every timeout that stays scheduled
LiveSpec == Init /\ [][NextB(MaxEmitsLive)]_vars
                 /\ \A p \in Pairs : WF_vars(TimerFire(p))

(***************************************************************************)
(* Vocabulary of the properties.                                           *)
(***************************************************************************)
BatchName == "workflow:node-events-batch"
IsBatch(m) == m.name = BatchName
\* the batch message that carries the events q for workflow w
BatchMsg(w, q) ==
  [ name |-> BatchName,
    payload |-> [ count |-> Len(q), events |-> q, workflowId |-> w ] ]

KeyOf(p) == queueKey(p[1], p[2])
\* the pending list of a pair (empty when the map has no entry)
Pending(p) ==
  IF MapHas(eventQueues, KeyOf(p)) THEN eventQueues[KeyOf(p)] ELSE <<>>
\* the scheduled timeouts whose callback flushes for pair p
ArmedFor(p) == { t \in timers : t.socketId = p[1] /\ t.workflowId = p[2] }
\* no timeout is scheduled or recorded for pair p
Disarmed(p) == ArmedFor(p) = {} /\ ~MapHas(batchTimers, KeyOf(p))

\* the events of the batches for workflow w among msgs, in delivery order
RECURSIVE FlattenFor(_, _)
FlattenFor(msgs, w) ==
  IF msgs = <<>> THEN <<>>
  ELSE (IF IsBatch(Head(msgs)) /\ Head(msgs).payload.workflowId = w
        THEN Head(msgs).payload.events ELSE <<>>)
       \o FlattenFor(Tail(msgs), w)
Delivered(p) == FlattenFor(io[p[1]], p[2])

\* positions (socket, message, index) of the events carried by delivered batches
BatchSlots ==
  UNION { UNION { { <<s, i, a>> : a \in DOMAIN io[s][i].payload.events }
                  : i \in { j \in DOMAIN io[s] : IsBatch(io[s][j]) } }
          : s \in SocketIds }
SlotEvent(x) == io[x[1]][x[2]].payload.events[x[3]]
\* every event that some delivered batch carries
DeliveredEvents == { SlotEvent(x) : x \in BatchSlots }

OpPair == << lastOp.socketId, lastOp.workflowId >>
\* the step just taken ran operation op for pair p
Ran(op, p) ==
  /\ lastOp'.op = op
  /\ lastOp'.socketId = p[1]
  /\ lastOp'.workflowId = p[2]
  /\ vars' # vars
\* exactly one message, m, is delivered by the step, and to socket s
DeliversOnly(s, m) ==
  /\ io'[s] = Append(io[s], m)
  /\ \A s2 \in SocketIds \ {s} : io'[s2] = io[s2]
\* the messages a step adds for socket s
NewMsgs(s) == SubSeq(io'[s], Len(io[s]) + 1, Len(io'[s]))
Last(q) == q[Len(q)]
\* the batch messages delivered for pair p, in order
BatchesOf(p) ==
  SelectSeq(io[p[1]], LAMBDA m : IsBatch(m) /\ m.payload.workflowId = p[2])

(***************************************************************************)
(* C1: size-triggered flush.  When an emitNodeEvent call brings the        *)
(* pending list of a pair to batchSize events, that same call delivers     *)
(* exactly one message, the batch of those batchSize events with           *)
(* count = batchSize, and empties the pending list; and no later timer     *)
(* expiry delivers an event that a batch has already delivered.            *)
(***************************************************************************)
C1_SizeTriggeredFlush ==
  [][ /\ \A p \in Pairs :
           (Ran("emit", p) /\ Len(Pending(p)) + 1 = config.batchSize)
           => LET batch == Append(Pending(p), Last(emitted'[p]))
              IN /\ DeliversOnly(p[1], BatchMsg(p[2], batch))
                 /\ Last(io'[p[1]]).payload.count = config.batchSize
                 /\ Pending(p)' = <<>>
      /\ \A p \in Pairs :
           Ran("timer", p)
           => \A s \in SocketIds : \A i \in DOMAIN NewMsgs(s) :
                \A a \in DOMAIN NewMsgs(s)[i].payload.events :
                   NewMsgs(s)[i].payload.events[a] \notin DeliveredEvents
    ]_vars

\* a call of emitNodeEvent has just flushed a full batch of 3 events
C1_Witness ==
  /\ lastOp.op = "emit"
  /\ lastOp.sent = 1
  /\ config.batchSize = 3
  /\ Pending(OpPair) = <<>>
  /\ BatchesOf(OpPair) # <<>>
  /\ Last(BatchesOf(OpPair)).payload.count = 3
  /\ Last(Last(BatchesOf(OpPair)).payload.events) = Last(emitted[OpPair])

(***************************************************************************)
(* C2: time-triggered flush.  When the window timeout of a pair expires    *)
(* while k events are pending, 1 <= k < batchSize, the expiry delivers     *)
(* exactly one message, the batch of those k events with count = k, and    *)
(* leaves the pair with an empty pending list and no timeout armed.        *)
(***************************************************************************)
C2_TimeTriggeredFlush ==
  [][ \A p \in Pairs :
        (/\ Ran("timer", p)
         /\ Len(Pending(p)) >= 1
         /\ Len(Pending(p)) < config.batchSize)
        => /\ DeliversOnly(p[1], BatchMsg(p[2], Pending(p)))
           /\ Last(io'[p[1]]).payload.count = Len(Pending(p))
           /\ Pending(p)' = <<>>
           /\ Disarmed(p)'
    ]_vars

\* a timeout has just flushed a batch of 2 events that is smaller than batchSize
C2_Witness ==
  /\ lastOp.op = "timer"
  /\ lastOp.sent = 1
  /\ config.batchSize > 2
  /\ BatchesOf(OpPair) # <<>>
  /\ Last(BatchesOf(OpPair)).payload.count = 2
  /\ Pending(OpPair) = <<>>

(***************************************************************************)
(* C3: no double flush.  No emitted event is carried by more than one      *)
(* delivered batch, nor twice by one batch (emitted events are pairwise    *)
(* distinct).                                                              *)
(***************************************************************************)
C3_NoDoubleFlush ==
  \A x \in BatchSlots : \A y \in BatchSlots :
     SlotEvent(x) = SlotEvent(y) => x = y

\* a pair has had a size flush, a timer flush and a cleanup flush, and
\* gathers events again
C3_Witness ==
  \E p \in Pairs :
     /\ Len(BatchesOf(p)) >= 3
     /\ Pending(p) # <<>>
     /\ config.batchSize = 2
     /\ \E i \in DOMAIN BatchesOf(p) : BatchesOf(p)[i].payload.count = 2

(***************************************************************************)
(* C4: no event is stranded.  Given that a timeout that stays scheduled    *)
(* eventually expires, every event passed to emitNodeEvent is eventually   *)
(* carried by a delivered batch, whether the pair was flushed or cleaned   *)
(* up before or not.                                                       *)
(***************************************************************************)
C4_NoEventStranded ==
  \A p \in Pairs : \A n \in 1..MaxEmitsLive :
     (Len(emitted[p]) >= n) ~> (EventOf(p[1], p[2], n) \in DeliveredEvents)

\* an event emitted after an earlier flush of its pair has been delivered by
\* the expiry of the timeout armed for it
C4_Witness ==
  /\ lastOp.op = "timer"
  /\ lastOp.sent = 1
  /\ Len(BatchesOf(OpPair)) >= 2
  /\ Pending(OpPair) = <<>>
  /\ Delivered(OpPair) = emitted[OpPair]
  /\ Last(emitted[OpPair]) \in DeliveredEvents

(***************************************************************************)
(* C5: per-key ordering.  For every pair, the events of the batches        *)
(* delivered for it, concatenated in delivery order and followed by the    *)
(* events still pending, are exactly the events passed to emitNodeEvent    *)
(* for the pair, in call order.                                            *)
(***************************************************************************)
C5_PerKeyOrdering ==
  \A p \in Pairs : Delivered(p) \o Pending(p) = emitted[p]

\* a pair has received several batches, one of them with several events
C5_Witness ==
  \E p \in Pairs :
     /\ Len(BatchesOf(p)) >= 2
     /\ Len(Delivered(p)) >= 4
     /\ Pending(p) # <<>>

(***************************************************************************)
(* C6: isolation.  Every delivered batch carries only events emitted under *)
(* one pair and goes to that pair's socket with that pair's workflowId;    *)
(* and an operation run for one pair leaves the pending list, the timeout  *)
(* and the delivered batches of every other pair as they were.             *)
(***************************************************************************)
C6_Isolation ==
  [][ /\ \A s \in SocketIds : \A i \in DOMAIN io'[s] :
           IsBatch(io'[s][i])
           => \A a \in DOMAIN io'[s][i].payload.events :
                 io'[s][i].payload.events[a].nodeId
                    = << s, io'[s][i].payload.workflowId >>
      /\ \A p \in Pairs : \A q \in Pairs \ {p} :
           (Ran("emit", p) \/ Ran("timer", p) \/ Ran("cleanup", p))
           => /\ Pending(q)' = Pending(q)
              /\ ArmedFor(q)' = ArmedFor(q)
              /\ MapHas(batchTimers', KeyOf(q)) = MapHas(batchTimers, KeyOf(q))
              /\ BatchesOf(q)' = BatchesOf(q)
    ]_vars

\* a timeout has flushed one pair while another pair of the same socket and
\* a pair of the other socket keep their pending events and timeouts
C6_Witness ==
  /\ lastOp.op = "timer"
  /\ lastOp.sent = 1
  /\ Pending(OpPair) = <<>>
  /\ \E q \in Pairs \ {OpPair} :
        q[1] = OpPair[1] /\ Pending(q) # <<>> /\ ArmedFor(q) # {}
  /\ \E q \in Pairs \ {OpPair} :
        q[1] # OpPair[1] /\ Pending(q) # <<>> /\ ArmedFor(q) # {}

(***************************************************************************)
(* C7: batches are never empty.  Every delivered batch message carries at  *)
(* least one event and its count is the number of events it carries; a     *)
(* cleanup or timeout expiry for a pair with no pending event delivers     *)
(* nothing.                                                                *)
(***************************************************************************)
C7_BatchNeverEmpty ==
  [][ /\ \A s \in SocketIds : \A i \in DOMAIN io'[s] :
           IsBatch(io'[s][i])
           => /\ io'[s][i].payload.count = Len(io'[s][i].payload.events)
              /\ io'[s][i].payload.count >= 1
      /\ \A p \in Pairs :
           ((Ran("cleanup", p) \/ Ran("timer", p)) /\ Pending(p) = <<>>)
           => io' = io
    ]_vars

\* cleanup has run for a pair that never had an event, after batches were
\* delivered for other pairs
C7_Witness ==
  /\ lastOp.op = "cleanup"
  /\ lastOp.sent = 0
  /\ emitted[OpPair] = <<>>
  /\ \E s \in SocketIds : io[s] # <<>>

(***************************************************************************)
(* C8: batch size bound.  No delivered batch carries more than batchSize   *)
(* events, and between operations every pending list holds fewer than      *)
(* batchSize events.                                                       *)
(***************************************************************************)
C8_BatchSizeBound ==
  /\ \A s \in SocketIds : \A i \in DOMAIN io[s] :
        IsBatch(io[s][i]) => Len(io[s][i].payload.events) <= config.batchSize
  /\ \A k \in DOMAIN eventQueues : Len(eventQueues[k]) < config.batchSize

\* a full batch has been delivered and another pending list is one short of full
C8_Witness ==
  /\ config.batchSize = 3
  /\ \E p \in Pairs : \E i \in DOMAIN BatchesOf(p) :
        BatchesOf(p)[i].payload.count = config.batchSize
  /\ \E q \in Pairs : Len(Pending(q)) = config.batchSize - 1

(***************************************************************************)
(* C9: timer/queue mutual exclusion.  For every key, a timeout is          *)
(* scheduled exactly when the key has a timer entry, and that exactly when *)
(* the key has a non-empty pending list; the scheduled timeout is the one  *)
(* the entry names.  So no timeout stays armed for a key that was flushed. *)
(***************************************************************************)
C9_TimerIffPending ==
  \A k \in DOMAIN eventQueues \cup DOMAIN batchTimers
             \cup { t.queueKey : t \in timers } :
     /\ MapHas(eventQueues, k)
     /\ Len(eventQueues[k]) > 0
     /\ MapHas(batchTimers, k)
     /\ { t.id : t \in { u \in timers : u.queueKey = k } } = { batchTimers[k] }

\* a size flush has just cancelled the timeout of one pair while another
\* pair still has pending events and its timeout
C9_Witness ==
  /\ lastOp.op = "emit"
  /\ lastOp.sent = 1
  /\ config.batchSize > 1
  /\ Pending(OpPair) = <<>>
  /\ Disarmed(OpPair)
  /\ \E q \in Pairs : Pending(q) # <<>> /\ ArmedFor(q) # {}

(***************************************************************************)
(* C10: cleanup drains.  A cleanup for a pair with pending events delivers *)
(* exactly one message, the batch of all of them in arrival order, and     *)
(* leaves the pair with no pending event and no timeout.                   *)
(***************************************************************************)
C10_CleanupDrains ==
  [][ \A p \in Pairs :
        (Ran("cleanup", p) /\ Pending(p) # <<>>)
        => /\ DeliversOnly(p[1], BatchMsg(p[2], Pending(p)))
           /\ BatchMsg(p[2], Pending(p)).payload.events
                 = SubSeq(emitted[p], Len(Delivered(p)) + 1, Len(emitted[p]))
           /\ Pending(p)' = <<>>
           /\ Disarmed(p)'
    ]_vars

\* cleanup has just delivered the two pending events of a pair
C10_Witness ==
  /\ lastOp.op = "cleanup"
  /\ lastOp.sent = 1
  /\ Last(BatchesOf(OpPair)).payload.count = 2
  /\ Delivered(OpPair) = emitted[OpPair]
  /\ Pending(OpPair) = <<>>
  /\ Disarmed(OpPair)

(***************************************************************************)
(* C11: idempotent cleanup.  A cleanup for a pair with no pending event    *)
(* (a pair never used, or one already flushed or cleaned up) delivers no   *)
(* message and leaves every queue, every timer entry and every scheduled   *)
(* timeout as it was, whether or not a timeout is armed for other pairs.   *)
(***************************************************************************)
C11_IdempotentCleanup ==
  [][ \A p \in Pairs :
        (Ran("cleanup", p) /\ Pending(p) = <<>>)
        => /\ lastOp'.sent = 0
           /\ UNCHANGED << eventQueues, batchTimers, timers, io >>
    ]_vars

\* cleanup has run, without effect, for a pair whose events were flushed
\* before, while another pair has pending events and an armed timeout
C11_Witness ==
  /\ lastOp.op = "cleanup"
  /\ lastOp.sent = 0
  /\ emitted[OpPair] # <<>>
  /\ Pending(OpPair) = <<>>
  /\ Disarmed(OpPair)
  /\ \E q \in Pairs : Pending(q) # <<>> /\ ArmedFor(q) # {}

(***************************************************************************)
(* The whole public interface of the emitter: next to the operations of    *)
(* Spec, callers use emitNodeEventImmediate, emitWorkflowComplete and      *)
(* emitWorkflowError, and pass emitNodeEvent envelopes that                *)
(* NodeEventSchema does not accept.                                        *)
(***************************************************************************)
\* number of emit calls (of any kind) explored with the whole interface
MaxEmitsApi == 2

ImmediateName == "workflow:node-event"

\* NodeEventSchema (z.object): the fields that the modelled envelopes carry
NodeEventSchema(e) ==
  /\ e.eventType \in { "complete", "error", "running", "start" }
  /\ e.timestamp \in Int
  /\ e.timestamp > 0
  /\ "payload" \in DOMAIN e
     => /\ "progress" \in DOMAIN e.payload
           => (e.payload.progress >= 0 /\ e.payload.progress <= 100)
        /\ "status" \in DOMAIN e.payload
           => e.payload.status \in { "completed", "error", "idle", "running" }

\* emitNodeEventImmediate written as a push followed by a flush of the key
emitNodeEventImmediate_ViaQueue(st, socketId, workflowId, event) ==
  LET key    == queueKey(socketId, workflowId)
      q0     == IF MapHas(st.eventQueues, key) THEN st.eventQueues[key] ELSE <<>>
      pushed == [st EXCEPT !.eventQueues = MapSet(st.eventQueues, key, Append(q0, event))]
  IN flushBatch(pushed, socketId, workflowId, key)

\* emitNodeEventImmediate(socketId, workflowId, event)
emitNodeEventImmediate(st, socketId, workflowId, event) ==
  [st EXCEPT !.io = ioEmit(@, socketId, ImmediateName,
                           [ count |-> 1, event |-> event, workflowId |-> workflowId ])]

\* the event a caller sends on the immediate path as its n-th emit call
ImmediateEvent(s, w, n) ==
  [ nodeId |-> <<s, w>>, eventType |-> "error", timestamp |-> n ]

\* envelopes that fail NodeEventSchema: a timestamp that is not positive, a
\* progress above 100
InvalidEvents(s, w, n) ==
  { [ nodeId |-> <<s, w>>, eventType |-> "running", timestamp |-> 0 ],
    [ nodeId |-> <<s, w>>, eventType |-> "running", timestamp |-> n,
      payload |-> [ progress |-> 150 ] ] }

EmitImmediate ==
  /\ clock < MaxEmitsApi
  /\ \E p \in Pairs :
       LET st == emitNodeEventImmediate(State, p[1], p[2],
                                        ImmediateEvent(p[1], p[2], clock + 1))
       IN /\ Commit(st)
          /\ lastOp' = OpRecord("immediate", p[1], p[2], st)
  /\ clock' = clock + 1
  /\ UNCHANGED << config, emitted, serverVars, storeVars, transportVars >>

\* emitWorkflowComplete(socketId, workflowComplete)
emitWorkflowComplete(st, socketId, workflowComplete) ==
  [st EXCEPT !.io = ioEmit(@, socketId, "workflow:complete", workflowComplete)]

\* emitWorkflowError(socketId, workflowId, code = "WORKFLOW_ERROR", error?);
\* `optional` holds the arguments code and error that the caller passes: the
\* default stands in for a code that is not passed, and an error that is not
\* passed is undefined in the payload
emitWorkflowError(st, socketId, workflowId, optional) ==
  LET base == [ code |-> IF "code" \in DOMAIN optional THEN optional.code
                         ELSE "WORKFLOW_ERROR",
                workflowId |-> workflowId ]
  IN [st EXCEPT !.io = ioEmit(@, socketId, "workflow:error",
                   IF "error" \in DOMAIN optional
                   THEN base @@ [ error |-> optional.error ]
                   ELSE base)]

\* the optional arguments of the calls of emitWorkflowError
ErrorArguments ==
  { [ code |-> "EXECUTION_ERROR", error |-> "boom" ], << >> }

\* the pairs whose end or failure a caller reports: the two workflows of one
\* socket
ReportedPairs == { p \in Pairs : p[1] = << "s" >> }

\* a caller announces the end of a workflow as its n-th call
EmitWorkflowComplete ==
  /\ clock < MaxEmitsApi
  /\ \E p \in ReportedPairs :
       LET st == emitWorkflowComplete(State, p[1],
                   [ failedNodes |-> <<>>, status |-> "success",
                     totalTime |-> clock + 1, workflowId |-> p[2] ])
       IN /\ Commit(st)
          /\ lastOp' = OpRecord("complete", p[1], p[2], st)
  /\ clock' = clock + 1
  /\ UNCHANGED << config, emitted, serverVars, storeVars, transportVars >>

\* a caller reports the failure of a workflow, with and without code and
\* error text
EmitWorkflowError ==
  /\ clock < MaxEmitsApi
  /\ \E p \in ReportedPairs, optional \in ErrorArguments :
       LET st == emitWorkflowError(State, p[1], p[2], optional)
       IN /\ Commit(st)
          /\ lastOp' = OpRecord("error", p[1], p[2], st)
  /\ clock' = clock + 1
  /\ UNCHANGED << config, emitted, serverVars, storeVars, transportVars >>

EmitInvalid ==
  /\ clock < MaxEmitsApi
  /\ \E p \in Pairs : \E event \in InvalidEvents(p[1], p[2], clock + 1) :
       LET st == emitNodeEvent(State, p[1], p[2], event, <<p[1], p[2], clock + 1>>)
       IN /\ Commit(st)
          /\ emitted' = [emitted EXCEPT ![p] = Append(@, event)]
          /\ lastOp' = OpRecord("emitInvalid", p[1], p[2], st)
  /\ clock' = clock + 1
  /\ UNCHANGED << config, serverVars, storeVars, transportVars >>

NextApi ==
  \/ Emit(MaxEmitsApi)
  \/ EmitImmediate
  \/ EmitWorkflowComplete
  \/ EmitWorkflowError
  \/ EmitInvalid
  \/ \E p \in Pairs : TimerFire(p)
  \/ Cleanup

ApiSpec == Init /\ [][NextApi]_vars

(***************************************************************************)
(* C13: emitNodeEventImmediate delivers its event at once, as one message  *)
(* "workflow:node-event" with count 1 to the pair's socket, and leaves     *)
(* every pending list, timer entry and scheduled timeout unchanged.        *)
(***************************************************************************)
C13_ImmediateBypassesBatching ==
  [][ \A p \in Pairs :
        Ran("immediate", p)
        => /\ DeliversOnly(p[1],
                [ name |-> ImmediateName,
                  payload |-> [ count |-> 1,
                                event |-> ImmediateEvent(p[1], p[2], clock'),
                                workflowId |-> p[2] ] ])
           /\ UNCHANGED << eventQueues, batchTimers, timers >>
    ]_vars

\* an immediate event has been delivered for a pair that has pending events
\* and an armed timeout
C13_Witness ==
  /\ lastOp.op = "immediate"
  /\ lastOp.sent = 1
  /\ Last(io[lastOp.socketId]).name = ImmediateName
  /\ Last(io[lastOp.socketId]).payload.count = 1
  /\ Pending(OpPair) # <<>>
  /\ ArmedFor(OpPair) # {}

(***************************************************************************)
(* C14: an envelope that fails validation is rejected by emit: no pending  *)
(* list and no delivered batch ever holds an envelope that NodeEventSchema *)
(* does not accept.                                                        *)
(***************************************************************************)
C14_InvalidEnvelopeRejected ==
  /\ \A k \in DOMAIN eventQueues : \A i \in DOMAIN eventQueues[k] :
        NodeEventSchema(eventQueues[k][i])
  /\ \A e \in DeliveredEvents : NodeEventSchema(e)

(***************************************************************************)
(* The server: the socket handlers "workflow:execute" and                  *)
(* "workflow:cancel" and the runs of simulateWorkflowExecution, all        *)
(* sharing one emitter.  Every handler and every continuation of a run     *)
(* after its await runs to completion on the single thread, so each is one *)
(* action.  (`emitted` is the history of Spec and is not kept here.)       *)
(***************************************************************************)
\* number of commands (execute or cancel) the clients send
MaxCommands == 2
\* last value of Date.now() explored; the clock starts at 1
MaxNow == 2
\* number of nodes in the workflows of all accepted execute commands together
MaxNodes == 2

\* new WorkflowEventEmitter(io, { batchSize: 10, batchWindow: 100 })
ServerBatchSize == 10
ServerBatchWindow == 100

Digits == << "0", "1", "2", "3", "4", "5", "6", "7", "8", "9" >>
\* const workflowId = `workflow-${Date.now()}`
WorkflowIdAt(now) == << "workflow-", Digits[now + 1] >>

\* the workflow ids a client may name in a cancel command
CancelIds == { WorkflowIdAt(t) : t \in 1..MaxNow }
\* the session whose commands are explored
ServerSockets == { << "s" >> }
ServerPairs == ServerSockets \X CancelIds

\* payloads of "workflow:execute": accepted ones with 0, 1 and 2 nodes (a
\* node without label and one with a label), and one whose node type is
\* outside the enum
NodeA == [ id |-> "a", type |-> "start" ]
NodeB == [ id |-> "b", type |-> "api", label |-> "Fetch" ]
ExecuteData ==
  { [ nodes |-> <<>>, edges |-> <<>> ],
    [ nodes |-> << NodeA >>, edges |-> <<>> ],
    [ nodes |-> << NodeA, NodeB >>, edges |-> <<>> ],
    [ nodes |-> << [ id |-> "a", type |-> "loop" ] >>, edges |-> <<>> ] }
\* payloads of "workflow:cancel": a workflowId string, or none
NoWorkflowId == << >>
CancelData == { [ workflowId |-> w ] : w \in CancelIds \cup { NoWorkflowId } }

\* ExecuteWorkflowSchema.parse(data) succeeds
ExecuteWorkflowSchema(data) ==
  \A i \in DOMAIN data.nodes : data.nodes[i].type \in { "api", "result", "start" }
\* z.object({ workflowId: z.string() }).parse(data) succeeds
CancelWorkflowSchema(data) == data.workflowId # NoWorkflowId

\* the message of the first issue of the ZodError that
\* ExecuteWorkflowSchema.parse(data) throws: the first node whose type is
\* outside z.enum(["api", "result", "start"])
FirstIssueMessage(data) ==
  LET Bad(i) == data.nodes[i].type \notin { "api", "result", "start" }
      first  == CHOOSE i \in DOMAIN data.nodes :
                  Bad(i) /\ \A j \in 1..(i - 1) : ~Bad(j)
  IN "Invalid enum value. Expected 'api' | 'result' | 'start', received '"
       \o data.nodes[first].type \o "'"

\* the catch block of the "workflow:execute" handler: what the try block
\* throws is the ZodError of parse (socket.emit does not throw and
\* simulateWorkflowExecution catches inside its own async body), so the
\* message is `Validation error: ${error.issues[0]?.message ?? "Unknown"}`
ValidationMessage(data) == "Validation error: " \o FirstIssueMessage(data)

\* the node events that simulateWorkflowExecution builds
StartEvent(node, nodeStartTime) ==
  [ eventType |-> "start", nodeId |-> node.id,
    payload |-> [ startTime |-> nodeStartTime, status |-> "running" ],
    timestamp |-> nodeStartTime ]
ErrorEvent(node, nodeStartTime, nodeEndTime) ==
  [ eventType |-> "error", nodeId |-> node.id,
    payload |-> [ endTime |-> nodeEndTime, error |-> "Simulated API timeout",
                  startTime |-> nodeStartTime, status |-> "error" ],
    timestamp |-> nodeEndTime ]
\* `${node.label || node.type}`: the label, unless it is absent or empty
labelOrType(node) ==
  IF "label" \in DOMAIN node /\ node.label # "" THEN node.label ELSE node.type

CompleteEvent(node, nodeStartTime, nodeEndTime) ==
  [ eventType |-> "complete", nodeId |-> node.id,
    payload |-> [ endTime |-> nodeEndTime,
                  result |-> [ message |-> labelOrType(node)
                                             \o " executed successfully" ],
                  startTime |-> nodeStartTime, status |-> "completed" ],
    timestamp |-> nodeEndTime ]

\* the end of the try block: emitWorkflowComplete, then emitter.cleanup
finishRun(st, run) ==
  cleanup(emitWorkflowComplete(st, run.socketId,
            [ failedNodes |-> <<>>, status |-> "success",
              totalTime |-> serverNow - run.workflowStartTime,
              workflowId |-> run.workflowId ]),
          run.socketId, run.workflowId)

\* the part of the loop body before the await, for node number i of the run
startNode(st, run, i, handle) ==
  emitNodeEvent(st, run.socketId, run.workflowId,
                StartEvent(run.nodes[i], serverNow), handle)

ServerInit ==
  /\ config = constructor([batchSize |-> ServerBatchSize,
                           batchWindow |-> ServerBatchWindow])
  /\ eventQueues = EmptyMap
  /\ batchTimers = EmptyMap
  /\ timers = {}
  /\ io = [s \in SocketIds |-> <<>>]
  /\ emitted = [p \in Pairs |-> <<>>]
  /\ lastOp = [op |-> "new", socketId |-> <<>>, workflowId |-> <<>>, sent |-> 0]
  /\ clock = 0
  /\ ServerIdle
  /\ StoreIdle
  /\ TransportIdle

\* number of commands handled so far
Commands ==
  SumOver([s \in SocketIds |->
             Cardinality({ i \in DOMAIN io[s] :
                io[s][i].name \in { "workflow:started", "workflow:cancelled",
                                    "workflow:error" } })], SocketIds)

\* number of nodes of the runs started so far
RECURSIVE NodesOf(_)
NodesOf(rs) ==
  IF rs = <<>> THEN 0 ELSE Len(Head(rs).nodes) + NodesOf(Tail(rs))

\* socket.on("workflow:execute") with a payload that the schema accepts:
\* sends "workflow:started" and runs simulateWorkflowExecution up to its
\* first await, or to its end when there is no node
ExecuteOk(s, data) ==
  /\ Commands < MaxCommands
  /\ NodesOf(runs) + Len(data.nodes) <= MaxNodes
  /\ ExecuteWorkflowSchema(data)
  /\ LET workflowId == WorkflowIdAt(serverNow)
         run == [ socketId |-> s, workflowId |-> workflowId, nodes |-> data.nodes,
                  workflowStartTime |-> serverNow, nodeStartTime |-> serverNow,
                  node |-> 1, awaitAt |-> clock + 1, done |-> data.nodes = <<>>,
                  cleanups |-> IF data.nodes = <<>> THEN 1 ELSE 0 ]
         st0 == [State EXCEPT !.io = ioEmit(@, s, "workflow:started",
                                            [ workflowId |-> workflowId ])]
         st  == IF data.nodes = <<>> THEN finishRun(st0, run)
                ELSE startNode(st0, run, 1, <<s, workflowId, clock + 1>>)
     IN /\ Commit(st)
        /\ runs' = Append(runs, run)
        /\ lastOp' = OpRecord("execute", s, workflowId, st)
        /\ clock' = IF data.nodes = <<>> THEN clock ELSE clock + 1
  /\ UNCHANGED << config, emitted, serverNow, storeVars, transportVars >>

\* a handler that announces the run before it parses the payload
ExecuteInvalid_StartedFirst(s, data) ==
  /\ Commands < MaxCommands
  /\ ~ExecuteWorkflowSchema(data)
  /\ LET st0 == [State EXCEPT !.io = ioEmit(@, s, "workflow:started",
                    [ workflowId |-> WorkflowIdAt(serverNow) ])]
         st  == [st0 EXCEPT !.io = ioEmit(@, s, "workflow:error",
                   [ code |-> "VALIDATION_ERROR",
                     error |-> ValidationMessage(data) ])]
     IN /\ Commit(st)
        /\ lastOp' = OpRecord("executeInvalid", s, <<>>, st)
  /\ UNCHANGED << config, emitted, clock, serverVars, storeVars, transportVars >>

\* socket.on("workflow:execute") with a payload that the schema rejects
ExecuteInvalid(s, data) ==
  /\ Commands < MaxCommands
  /\ ~ExecuteWorkflowSchema(data)
  /\ LET st == [State EXCEPT !.io = ioEmit(@, s, "workflow:error",
                   [ code |-> "VALIDATION_ERROR",
                     error |-> ValidationMessage(data) ])]
     IN /\ Commit(st)
        /\ lastOp' = OpRecord("executeInvalid", s, <<>>, st)
  /\ UNCHANGED << config, emitted, clock, serverVars, storeVars, transportVars >>

\* socket.on("workflow:cancel")
Cancel(s, data) ==
  /\ Commands < MaxCommands
  /\ LET st == IF CancelWorkflowSchema(data)
               THEN [State EXCEPT !.io = ioEmit(@, s, "workflow:cancelled",
                                     [ workflowId |-> data.workflowId ])]
               ELSE [State EXCEPT !.io = ioEmit(@, s, "workflow:error",
                                     [ code |-> "INVALID_REQUEST",
                                       error |-> "Invalid cancel request" ])]
     IN /\ Commit(st)
        /\ lastOp' = OpRecord("cancel", s, data.workflowId, st)
  /\ UNCHANGED << config, emitted, clock, serverVars, storeVars, transportVars >>

\* the delay of a run's await (`Math.random() * 2000 + 1000` ms) is longer
\* than the batch window (100 ms), so a timeout that emitNodeEvent armed no
\* later than the await began expires before the run continues; the third
\* component of a timeout handle is the number of the emit call that armed it
DelayElapsed(r) ==
  \A t \in timers : t.id[3] > runs[r].awaitAt

\* a run continues after `await new Promise(... setTimeout(resolve, delay))`:
\* it emits the error or the complete event of its node (Math.random() < 0.1)
\* and goes on to the next node's start event, or to the end of the run
Resume(r, failed) ==
  /\ r \in DOMAIN runs
  /\ ~runs[r].done
  /\ DelayElapsed(r)
  /\ LET run  == runs[r]
         node == run.nodes[run.node]
         last == run.node = Len(run.nodes)
         ev   == IF failed THEN ErrorEvent(node, run.nodeStartTime, serverNow)
                 ELSE CompleteEvent(node, run.nodeStartTime, serverNow)
         st1  == emitNodeEvent(State, run.socketId, run.workflowId, ev,
                               <<run.socketId, run.workflowId, clock + 1>>)
         st2  == IF last THEN finishRun(st1, run)
                 ELSE startNode(st1, run, run.node + 1,
                                <<run.socketId, run.workflowId, clock + 2>>)
     IN /\ Commit(st2)
        /\ runs' = [runs EXCEPT ![r] =
                      IF last THEN [run EXCEPT !.done = TRUE, !.cleanups = @ + 1]
                      ELSE [run EXCEPT !.node = @ + 1, !.nodeStartTime = serverNow,
                                       !.awaitAt = clock + 2]]
        /\ lastOp' = OpRecord("resume", run.socketId, run.workflowId, st2)
        /\ clock' = IF last THEN clock + 1 ELSE clock + 2
  /\ UNCHANGED << config, emitted, serverNow, storeVars, transportVars >>

\* time passes on the server
ServerTick ==
  /\ serverNow < MaxNow
  /\ serverNow' = serverNow + 1
  /\ UNCHANGED << vars, runs, storeVars, transportVars >>

ServerNext ==
  \/ \E s \in ServerSockets, data \in ExecuteData : ExecuteOk(s, data)
  \/ \E s \in ServerSockets, data \in ExecuteData : ExecuteInvalid(s, data)
  \/ \E s \in ServerSockets, data \in CancelData : Cancel(s, data)
  \/ \E r \in 1..MaxCommands, failed \in BOOLEAN : Resume(r, failed)
  \/ \E p \in ServerPairs : TimerFire(p)
  \/ ServerTick

ServerSpec == ServerInit /\ [][ServerNext]_allVars

\* the server has answered a cancel command for the workflowId of run r on
\* the run's socket
CancelledSent(r) ==
  \E i \in DOMAIN io[runs[r].socketId] :
     /\ io[runs[r].socketId][i].name = "workflow:cancelled"
     /\ io[runs[r].socketId][i].payload.workflowId = runs[r].workflowId

(***************************************************************************)
(* C12: cleanup pairing.  Whenever a run has terminated -- it reached its  *)
(* end (success or execution error), or the server confirmed a cancel      *)
(* command for its workflowId -- cleanup(socketId, workflowId) has been    *)
(* invoked for it exactly once; and it is never invoked more than once.    *)
(***************************************************************************)
C12_CleanupPairing ==
  \A r \in DOMAIN runs :
     /\ runs[r].cleanups <= 1
     /\ (runs[r].done \/ CancelledSent(r)) => runs[r].cleanups = 1

(***************************************************************************)
(* The client's store (frontend/src/app/store/workflowStore.ts): the map   *)
(* nodeStates and the operations on it.                                    *)
(*                                                                         *)
(* A stored node state is a function from the names of its fields that     *)
(* have a value to those values.  An object literal handed to the store    *)
(* (a patch) is a record of `def`, the function of its keys that have a    *)
(* value, and `undef`, the set of its keys that are present with the value *)
(* undefined: object spread copies such a key, and reading the field then  *)
(* yields undefined, as for a field the state does not have.               *)
(***************************************************************************)
MAX_LOGS_PER_NODE == 100

\* { ...currentState, ...update }
Spread(currentState, update) ==
  [ k \in (DOMAIN currentState \ update.undef) \cup DOMAIN update.def |->
      IF k \in DOMAIN update.def THEN update.def[k] ELSE currentState[k] ]

\* { ...o, [k]: v }
SetField(o, k, v) ==
  [ x \in DOMAIN o \cup {k} |-> IF x = k THEN v ELSE o[x] ]

\* logs.slice(0, n), the oldest n entries
sliceOldest(logs, n) == SubSeq(logs, 1, n)

\* logs.slice(-n), the newest n entries
slice(logs, n) ==
  IF Len(logs) <= n THEN logs ELSE SubSeq(logs, Len(logs) - n + 1, Len(logs))

\* the merge without the log cap
truncateLogs_NoCap(newState) == newState

\* if (newState.logs && newState.logs.length > MAX_LOGS_PER_NODE)
\*     newState.logs = newState.logs.slice(-MAX_LOGS_PER_NODE)
truncateLogs(newState) ==
  IF "logs" \in DOMAIN newState /\ Len(newState.logs) > MAX_LOGS_PER_NODE
  THEN [newState EXCEPT !.logs = slice(newState.logs, MAX_LOGS_PER_NODE)]
  ELSE newState

\* || { status: "idle", timestamp: now, logs: [] }
DefaultState(now) == [ status |-> "idle", timestamp |-> now, logs |-> <<>> ]

\* currentStates.get(nodeId) || { status: "idle", timestamp: now, logs: [] }
CurrentState(currentStates, nodeId, now) ==
  IF MapHas(currentStates, nodeId) THEN currentStates[nodeId] ELSE DefaultState(now)

\* zustand's set({ nodeStates: m }): the map is replaced and the subscribers
\* are notified with it, synchronously
set(st, m) ==
  [ nodeStates |-> m, published |-> Append(st.published, m) ]

\* the store as an operation finds it: nothing published by it yet
Store == [ nodeStates |-> nodeStates, published |-> <<>> ]

\* an update that stamps every entry of the map with the time of the call
updateNodeState_StampAll(st, nodeId, update, now) ==
  LET currentState == CurrentState(st.nodeStates, nodeId, now)
      newState     == truncateLogs(
                        SetField(Spread(currentState, update), "timestamp", now))
      newStates    == MapSet(st.nodeStates, nodeId, newState)
  IN set(st, [ n \in DOMAIN newStates |->
                 SetField(newStates[n], "timestamp", now) ])

\* updateNodeState: (nodeId, update) => { ... }, with Date.now() = now
updateNodeState(st, nodeId, update, now) ==
  LET currentState == CurrentState(st.nodeStates, nodeId, now)
      newState     == truncateLogs(
                        SetField(Spread(currentState, update), "timestamp", now))
  IN set(st, MapSet(st.nodeStates, nodeId, newState))

\* const { nodeId, ...stateUpdate } = update
stateUpdateOf(update) == [ def |-> update.def, undef |-> update.undef ]

\* stateUpdate.timestamp || now
timestampOr(stateUpdate, now) ==
  IF "timestamp" \in DOMAIN stateUpdate.def /\ stateUpdate.def.timestamp # 0
  THEN stateUpdate.def.timestamp ELSE now

\* one patch of a batch without the spread of the current state
mergeUpdate_NoSpread(currentStates, update, now) ==
  MapSet(currentStates, update.nodeId,
         truncateLogs(SetField(Spread(DefaultState(now), stateUpdateOf(update)),
                               "timestamp", timestampOr(stateUpdateOf(update), now))))

\* the body of updates.forEach((update) => { ... })
mergeUpdate(currentStates, update, now) ==
  LET stateUpdate  == stateUpdateOf(update)
      currentState == CurrentState(currentStates, update.nodeId, now)
      newState     == truncateLogs(
                        SetField(Spread(currentState, stateUpdate), "timestamp",
                                 timestampOr(stateUpdate, now)))
  IN MapSet(currentStates, update.nodeId, newState)

\* updates.forEach(...) on the copy of the map
RECURSIVE forEachUpdate(_, _, _)
forEachUpdate(currentStates, updates, now) ==
  IF updates = <<>> THEN currentStates
  ELSE forEachUpdate(mergeUpdate(currentStates, Head(updates), now),
                     Tail(updates), now)

\* a batch that commits each patch by itself, as a loop of updateNodeState
RECURSIVE batchUpdateNodeStates_SetPerUpdate(_, _, _)
batchUpdateNodeStates_SetPerUpdate(st, updates, now) ==
  IF updates = <<>> THEN st
  ELSE batchUpdateNodeStates_SetPerUpdate(
         set(st, mergeUpdate(st.nodeStates, Head(updates), now)),
         Tail(updates), now)

\* batchUpdateNodeStates: (updates) => { ... }, with Date.now() = now: the
\* patches are merged into a copy of the map and set() is called once
batchUpdateNodeStates(st, updates, now) ==
  set(st, forEachUpdate(st.nodeStates, updates, now))

\* what Map.get returns for a key that the map does not have
Undefined == << >>

\* a read that makes up the idle default for an id that has no state
getNodeState_Default(nodeId) ==
  IF MapHas(nodeStates, nodeId) THEN nodeStates[nodeId] ELSE DefaultState(clientNow)

\* getNodeState: (nodeId) => get().nodeStates.get(nodeId)
getNodeState(nodeId) ==
  IF MapHas(nodeStates, nodeId) THEN nodeStates[nodeId] ELSE Undefined

\* a reset that keeps the entries
resetNodeStates_Keep(st) == set(st, st.nodeStates)

\* resetNodeStates: () => { set({ nodeStates: new Map() }) }
resetNodeStates(st) == set(st, EmptyMap)

(***************************************************************************)
(* The store driven through its operations.  Every call runs to completion *)
(* on the single thread of the page, so each is one action.  storeOp       *)
(* records the call that made the last step, `published` the maps that the *)
(* call handed to set(), in order.                                         *)
(***************************************************************************)
\* last value of Date.now() explored on the client; the clock starts at 1
MaxClientNow == 2

NodeIds == { "n1", "n2" }

\* log line number i
LogLine(i) == i
\* a log list longer than the cap, and a short one
LongLogs == [ i \in 1..(MAX_LOGS_PER_NODE + 2) |-> LogLine(i) ]
ShortLogs == << LogLine(0) >>

\* object literals handed to updateNodeState / batchUpdateNodeStates
Patch(def, undef) == [ def |-> def, undef |-> undef ]
PatchRunning  == Patch([ status |-> "running", startTime |-> 1 ], {})
PatchTime     == Patch([ timestamp |-> 5 ], {})
PatchLongLogs == Patch([ logs |-> LongLogs ], {})
PatchShortLogs == Patch([ logs |-> ShortLogs ], {})
PatchUndefined == Patch([ status |-> "completed" ], { "startTime" })
Patches ==
  { PatchRunning, PatchTime, PatchLongLogs, PatchShortLogs, PatchUndefined }

\* { nodeId, ...patch }
NodeStateUpdate(nodeId, patch) ==
  [ nodeId |-> nodeId, def |-> patch.def, undef |-> patch.undef ]
\* the lists of at most two patches handed to batchUpdateNodeStates
BatchPatches == { PatchRunning, PatchTime, PatchLongLogs, PatchUndefined }
Updates == { NodeStateUpdate(n, u) : n \in NodeIds, u \in BatchPatches }
UpdateLists ==
  { << >> } \cup { << u >> : u \in Updates }
            \cup { << u, v >> : u \in Updates, v \in Updates }

\* the emitter and the server take no part
StoreInit ==
  /\ config = constructor([batchSize |-> ServerBatchSize,
                           batchWindow |-> ServerBatchWindow])
  /\ eventQueues = EmptyMap
  /\ batchTimers = EmptyMap
  /\ timers = {}
  /\ io = [s \in SocketIds |-> <<>>]
  /\ emitted = [p \in Pairs |-> <<>>]
  /\ lastOp = [op |-> "new", socketId |-> <<>>, workflowId |-> <<>>, sent |-> 0]
  /\ clock = 0
  /\ ServerIdle
  /\ StoreIdle
  /\ TransportIdle

\* the store after an operation (r: the operation's result, computed once)
CommitStore(st) ==
  \E r \in { st } :
     /\ nodeStates' = r.nodeStates
     /\ published' = r.published

\* useStore.getState().updateNodeState(nodeId, update)
UpdateNodeState(nodeId, update) ==
  /\ CommitStore(updateNodeState(Store, nodeId, update, clientNow))
  /\ storeOp' = [ op |-> "update", nodeId |-> nodeId, update |-> update ]
  /\ UNCHANGED << vars, serverVars, transportVars, execution, clientNow, logSeq, envelopes >>

\* useStore.getState().batchUpdateNodeStates(updates)
BatchUpdateNodeStates(updates) ==
  /\ CommitStore(batchUpdateNodeStates(Store, updates, clientNow))
  /\ storeOp' = [ op |-> "batch", updates |-> updates ]
  /\ UNCHANGED << vars, serverVars, transportVars, execution, clientNow, logSeq, envelopes >>

\* useStore.getState().resetNodeStates()
ResetNodeStates ==
  /\ CommitStore(resetNodeStates(Store))
  /\ storeOp' = [ op |-> "reset" ]
  /\ UNCHANGED << vars, serverVars, transportVars, execution, clientNow, logSeq, envelopes >>

\* time passes on the client
ClientTick ==
  /\ clientNow < MaxClientNow
  /\ clientNow' = clientNow + 1
  /\ storeOp' = [ op |-> "tick" ]
  /\ published' = << >>
  /\ UNCHANGED << vars, serverVars, transportVars, nodeStates, execution, logSeq, envelopes >>

\* useStore.getState().getNodeState(nodeId): storeOp keeps what it returned
GetNodeState(nodeId) ==
  /\ storeOp' = [ op |-> "get", nodeId |-> nodeId, result |-> getNodeState(nodeId) ]
  /\ published' = << >>
  /\ UNCHANGED << vars, serverVars, transportVars, nodeStates, execution,
                  clientNow, logSeq, envelopes >>

StoreNext ==
  \/ \E n \in NodeIds, u \in Patches : UpdateNodeState(n, u)
  \/ \E n \in NodeIds : GetNodeState(n)
  \/ \E us \in UpdateLists : BatchUpdateNodeStates(us)
  \/ ResetNodeStates
  \/ ClientTick

StoreSpec == StoreInit /\ [][StoreNext]_allVars

(***************************************************************************)
(* The client's socket service (frontend/src/services/socketService.ts):   *)
(* the handlers of the messages that the server sends.  A node event on    *)
(* the wire is a record with nodeId, eventType, timestamp and, optionally, *)
(* payload; a payload is the function of the fields it carries.            *)
(***************************************************************************)
\* the fields that parseNodeEvent copies from the payload with `?? undefined`
\* or as they are
OptionalFields == { "startTime", "endTime", "error", "result", "progress" }

\* const { payload = {} } = event
payloadOf(event) == IF "payload" \in DOMAIN event THEN event.payload ELSE << >>

\* an element of data.events that is null
NullEvent == << >>

\* the key of the Map entry that is written for an update whose nodeId is
\* undefined: the value undefined itself, told apart from every node id
UndefinedId == "undefined"

\* event.nodeId
nodeIdOf(event) ==
  IF "nodeId" \in DOMAIN event THEN event.nodeId ELSE UndefinedId

\* parseNodeEvent(event): every key of the returned object is present;
\* status falls back to "idle", logs to [], the others to undefined
parseNodeEvent(event) ==
  LET payload == payloadOf(event)
      defined == { "status", "timestamp", "logs" }
                   \cup (OptionalFields \cap DOMAIN payload)
  IN [ nodeId |-> nodeIdOf(event),
       def    |-> [ k \in defined |->
                     CASE k = "status" ->
                            IF "status" \in DOMAIN payload THEN payload.status
                            ELSE "idle"
                       [] k = "timestamp" -> event.timestamp
                       [] k = "logs" ->
                            IF "logs" \in DOMAIN payload THEN payload.logs
                            ELSE << >>
                       [] OTHER -> payload[k] ],
       undef  |-> OptionalFields \ DOMAIN payload ]

\* handleNodeEvent(event): the parsed update, key by key, to updateNodeState
handleNodeEvent(st, event, now) ==
  LET update == parseNodeEvent(event)
  IN updateNodeState(st, update.nodeId,
                     Patch(update.def, update.undef), now)

\* data.events.map((event) => this.parseNodeEvent(event))
RECURSIVE mapParseNodeEvent(_)
mapParseNodeEvent(events) ==
  IF events = << >> THEN << >>
  ELSE << parseNodeEvent(Head(events)) >> \o mapParseNodeEvent(Tail(events))

\* a set() of another field of the store: the subscribers are notified and
\* read the map as it is
setField(st) == set(st, st.nodeStates)

\* node events on the wire.  Those that the server of this repository
\* builds; two that carry less (only a progress value, no payload); and one
\* that passes NodeEventSchema with an error and no status: every field of
\* the payload is optional there
ClientNode(n) == [ id |-> n, type |-> "api" ]
ProgressEvent(n, t) ==
  [ eventType |-> "running", nodeId |-> n, payload |-> [ progress |-> 50 ],
    timestamp |-> t ]
BareEvent(n, t) == [ eventType |-> "running", nodeId |-> n, timestamp |-> t ]
ErrorOnlyEvent(n, t) ==
  [ eventType |-> "error", nodeId |-> n,
    payload |-> [ error |-> "Simulated API timeout" ], timestamp |-> t ]
NodeEvents ==
  UNION { { StartEvent(ClientNode(n), 1), CompleteEvent(ClientNode(n), 1, 2),
            ErrorEvent(ClientNode(n), 1, 2), ProgressEvent(n, 2),
            BareEvent(n, 2), ErrorOnlyEvent(n, 2) } : n \in NodeIds }
\* the events of "workflow:node-events-batch" messages: a message carries
\* one of them, or two of those of PairEvents in either order
BatchEvents == { StartEvent(ClientNode(n), 1) : n \in NodeIds }
                 \cup { CompleteEvent(ClientNode("n1"), 1, 2),
                        ErrorEvent(ClientNode("n2"), 1, 2),
                        ProgressEvent("n2", 2), BareEvent("n1", 2),
                        ErrorOnlyEvent("n1", 2) }
PairEvents == { StartEvent(ClientNode(n), 1) : n \in NodeIds }
                \cup { ErrorEvent(ClientNode("n2"), 1, 2),
                       ProgressEvent("n2", 2), ErrorOnlyEvent("n1", 2) }
EventLists ==
  { << e >> : e \in BatchEvents }
    \cup { << e, f >> : e \in PairEvents, f \in PairEvents }

\* socket.on("workflow:started")
OnStarted(workflowId) ==
  /\ CommitStore(resetNodeStates(setField(setField(setField(Store)))))
  /\ execution' = [ isExecuting |-> TRUE, workflowId |-> workflowId,
                    executionStartTime |-> clientNow ]
  /\ storeOp' = [ op |-> "started" ]
  /\ UNCHANGED << vars, serverVars, transportVars, clientNow, logSeq, envelopes >>

\* the history of envelope timestamps after the events of one message
RECURSIVE Received(_, _)
Received(env, events) ==
  IF events = << >> THEN env
  ELSE LET e == Head(events)
       IN Received(
            [ last    |-> MapSet(env.last, nodeIdOf(e), e.timestamp),
              ordered |-> /\ env.ordered
                          /\ MapHas(env.last, nodeIdOf(e))
                                => e.timestamp >= env.last[nodeIdOf(e)] ],
            Tail(events))

\* socket.on("workflow:node-event")
OnNodeEvent(event) ==
  /\ CommitStore(handleNodeEvent(Store, event, clientNow))
  /\ storeOp' = [ op |-> "nodeEvent", event |-> event ]
  /\ envelopes' = Received(envelopes, << event >>)
  /\ UNCHANGED << vars, serverVars, transportVars, execution, clientNow, logSeq >>

\* the destructuring `const { payload = {} } = event` of parseNodeEvent
\* throws a TypeError for an event that is null
Throws(events) == \E i \in DOMAIN events : events[i] = NullEvent

\* the listener of "workflow:node-events-batch": the map() over data.events,
\* then batchUpdateNodeStates; an exception in the map() leaves the listener
\* before the store is called
onNodeEventsBatch(st, events, now) ==
  IF Throws(events) THEN st
  ELSE batchUpdateNodeStates(st, mapParseNodeEvent(events), now)

\* socket.on("workflow:node-events-batch")
OnNodeEventsBatch(events) ==
  /\ CommitStore(onNodeEventsBatch(Store, events, clientNow))
  /\ storeOp' = [ op |-> "nodeEventsBatch", events |-> events ]
  /\ envelopes' = IF Throws(events) THEN envelopes
                  ELSE Received(envelopes, events)
  /\ UNCHANGED << vars, serverVars, transportVars, execution, clientNow, logSeq >>

\* socket.on("workflow:complete"), socket.on("workflow:error") and
\* socket.on("workflow:cancelled"): useStore.getState().setIsExecuting(false)
OnFinished(name) ==
  /\ CommitStore(setField(Store))
  /\ execution' = SetField(execution, "isExecuting", FALSE)
  /\ storeOp' = [ op |-> name ]
  /\ UNCHANGED << vars, serverVars, transportVars, clientNow, logSeq, envelopes >>

ClientNext ==
  \/ \E t \in 1..MaxNow : OnStarted(WorkflowIdAt(t))
  \/ \E e \in NodeEvents : OnNodeEvent(e)
  \/ \E es \in EventLists : OnNodeEventsBatch(es)
  \/ \E name \in { "complete", "error", "cancelled" } : OnFinished(name)
  \/ ClientTick

ClientSpec == StoreInit /\ [][ClientNext]_allVars

\* the timestamp of the last event for node n in a list of events
RECURSIVE LastTimestampOf(_, _)
LastTimestampOf(events, n) ==
  IF Last(events).nodeId = n THEN Last(events).timestamp
  ELSE LastTimestampOf(SubSeq(events, 1, Len(events) - 1), n)

\* the nodes that a list of events is about
NodesIn(events) == { events[i].nodeId : i \in DOMAIN events }

\* in map m every node of the event list carries the merge of its last event
BatchApplied(m, events) ==
  \A n \in NodesIn(events) :
     /\ MapHas(m, n)
     /\ m[n].timestamp = LastTimestampOf(events, n)

(***************************************************************************)
(* C15: batch atomicity.  Handling one "workflow:node-events-batch"        *)
(* message hands exactly one map to the store's set(), the map in which    *)
(* every entity of the batch is updated; so a reader of the store sees     *)
(* either the map before the batch or the map with the whole batch merged, *)
(* never one with part of the batch.                                       *)
(***************************************************************************)
C15_BatchAtomicity ==
  storeOp.op = "nodeEventsBatch" =>
     /\ Len(published) = 1
     /\ published[1] = nodeStates
     /\ \A i \in DOMAIN published : BatchApplied(published[i], storeOp.events)

\* a batch about two entities was merged over a map that had neither
C15_Witness ==
  /\ storeOp.op = "nodeEventsBatch"
  /\ storeOp.events = << StartEvent(ClientNode("n1"), 1), ProgressEvent("n2", 2) >>
  /\ DOMAIN nodeStates = { "n1", "n2" }
  /\ nodeStates["n1"].status = "running"
  /\ nodeStates["n2"].progress = 50

(***************************************************************************)
(* C16: log cap.  After any sequence of updateNodeState,                   *)
(* batchUpdateNodeStates and resetNodeStates calls, every entity in the    *)
(* map has at most MAX_LOGS_PER_NODE (100) log entries.                    *)
(***************************************************************************)
C16_LogCap ==
  \A n \in DOMAIN nodeStates :
     "logs" \in DOMAIN nodeStates[n] =>
        Len(nodeStates[n].logs) <= MAX_LOGS_PER_NODE

\* both entities hold a capped list: one cut by updateNodeState from a longer
\* patch, the other by a batch
C16_Witness ==
  /\ storeOp.op = "batch"
  /\ storeOp.updates = << NodeStateUpdate("n2", PatchLongLogs) >>
  /\ DOMAIN nodeStates = { "n1", "n2" }
  /\ Len(nodeStates["n1"].logs) = MAX_LOGS_PER_NODE
  /\ Len(nodeStates["n2"].logs) = MAX_LOGS_PER_NODE

(***************************************************************************)
(* Appending log lines to one entity.  The store has no append operation:  *)
(* a caller reads the entity's logs and hands the list with the new line   *)
(* at its end to updateNodeState or, as a batch of one patch, to           *)
(* batchUpdateNodeStates.  logSeq is the number of the newest line given   *)
(* to the store; the lines are numbered from 1 in the order they are       *)
(* appended.                                                               *)
(***************************************************************************)
\* number of log lines appended
MaxAppends == 150

\* the entity that receives the lines
LogNode == "n1"

\* getNodeState(nodeId)?.logs ?? []
logsOf(nodeId) ==
  IF "logs" \in DOMAIN getNodeState(nodeId)
  THEN getNodeState(nodeId).logs ELSE << >>

\* { logs: [...logs, line] }
AppendPatch(nodeId, line) == Patch([ logs |-> Append(logsOf(nodeId), line) ], {})

\* updateNodeState(nodeId, { logs: [...logs, line] })
AppendLog ==
  /\ logSeq < MaxAppends
  /\ CommitStore(updateNodeState(Store, LogNode,
                                 AppendPatch(LogNode, LogLine(logSeq + 1)), clientNow))
  /\ logSeq' = logSeq + 1
  /\ storeOp' = [ op |-> "append" ]
  /\ UNCHANGED << vars, serverVars, transportVars, execution, clientNow, envelopes >>

\* batchUpdateNodeStates([{ nodeId, logs: [...logs, line] }])
AppendLogBatch ==
  /\ logSeq < MaxAppends
  /\ CommitStore(batchUpdateNodeStates(Store,
        << NodeStateUpdate(LogNode, AppendPatch(LogNode, LogLine(logSeq + 1))) >>,
        clientNow))
  /\ logSeq' = logSeq + 1
  /\ storeOp' = [ op |-> "appendBatch" ]
  /\ UNCHANGED << vars, serverVars, transportVars, execution, clientNow, envelopes >>

\* a patch that carries the whole list of the lines 1 .. Len(LongLogs), by
\* updateNodeState or in a batch
ReplaceLogs(batch) ==
  /\ CommitStore(IF batch
                 THEN batchUpdateNodeStates(Store,
                        << NodeStateUpdate(LogNode, PatchLongLogs) >>, clientNow)
                 ELSE updateNodeState(Store, LogNode, PatchLongLogs, clientNow))
  /\ logSeq' = Len(LongLogs)
  /\ storeOp' = [ op |-> IF batch THEN "replaceBatch" ELSE "replace" ]
  /\ UNCHANGED << vars, serverVars, transportVars, execution, clientNow, envelopes >>

LogNext ==
  \/ AppendLog
  \/ AppendLogBatch
  \/ \E batch \in BOOLEAN : ReplaceLogs(batch)

LogSpec == StoreInit /\ [][LogNext]_allVars

\* the lines from .. to, in order
Lines(from, to) == [ i \in 1..(to - from + 1) |-> LogLine(from + i - 1) ]

\* the newest n of the lines 1 .. last, in order
NewestLines(last, n) == Lines(IF last > n THEN last - n + 1 ELSE 1, last)

(***************************************************************************)
(* C17: truncation keeps the newest entries.  After any number of          *)
(* sequential appends to one entity (beyond 100, up to 150 and more) its   *)
(* logs are exactly the last 100 lines appended, in their order; and a     *)
(* patch of updateNodeState or of a batch that carries a list longer than  *)
(* 100 stores exactly the last 100 entries of that list, in order.         *)
(***************************************************************************)
C17_NewestLogsKept ==
  /\ logSeq > 0 => logsOf(LogNode) = NewestLines(logSeq, MAX_LOGS_PER_NODE)
  /\ storeOp.op \in { "replace", "replaceBatch" } =>
        logsOf(LogNode) = SubSeq(LongLogs, Len(LongLogs) - MAX_LOGS_PER_NODE + 1,
                                 Len(LongLogs))

\* 150 lines were appended: the entity holds the lines 51 .. 150
C17_Witness ==
  /\ storeOp.op = "append"
  /\ logSeq = 150
  /\ Len(logsOf(LogNode)) = 100
  /\ logsOf(LogNode)[1] = LogLine(51)
  /\ logsOf(LogNode)[100] = LogLine(150)

(***************************************************************************)
(* Vocabulary of the patch properties.                                     *)
(***************************************************************************)
\* the fields of NodeExecutionState
AllFields ==
  { "status", "timestamp", "startTime", "endTime", "logs", "error",
    "errorStack", "result", "progress" }

\* the value read from a field of a state: << v >>, or << >> for undefined
Field(state, k) == IF k \in DOMAIN state THEN << state[k] >> ELSE << >>

\* the keys of an object literal
KeysOf(patch) == DOMAIN patch.def \cup patch.undef

\* the fields in Frame that the patch does not have are the same in cur and new
Keeps(cur, new, patch, Frame) ==
  \A k \in Frame \ KeysOf(patch) : Field(new, k) = Field(cur, k)

\* a logs list of the patch is what new holds, cut to its newest 100 entries
ReplacesLogs(new, patch) ==
  "logs" \in DOMAIN patch.def =>
     LET l == patch.def.logs
     IN new.logs = IF Len(l) <= MAX_LOGS_PER_NODE THEN l
                   ELSE SubSeq(l, Len(l) - MAX_LOGS_PER_NODE + 1, Len(l))

\* the state that a patch is merged over: the entity's state in map m, or
\* { status: "idle", logs: [] } stamped with the time of the call
MergedOver(m, nodeId, now) ==
  IF nodeId \in DOMAIN m THEN m[nodeId]
  ELSE [ status |-> "idle", logs |-> << >>, timestamp |-> now ]

\* the map after the first i patches of a batch
Mid(updates, i) == forEachUpdate(nodeStates, SubSeq(updates, 1, i), clientNow)

\* the step is a call of updateNodeState and obeys the patch semantics for
\* the fields in Frame
UpdateObeys(Frame) ==
  storeOp'.op = "update" =>
     LET n == storeOp'.nodeId
         cur == MergedOver(nodeStates, n, clientNow)
     IN /\ n \in DOMAIN nodeStates'
        /\ Keeps(cur, nodeStates'[n], storeOp'.update, Frame)
        /\ ReplacesLogs(nodeStates'[n], storeOp'.update)

\* the step is a call of batchUpdateNodeStates and each of its patches, in
\* list order, obeys the patch semantics for the fields in Frame
BatchObeys(Frame) ==
  storeOp'.op = "batch" =>
     LET us == storeOp'.updates
     IN /\ nodeStates' = Mid(us, Len(us))
        /\ \A i \in DOMAIN us :
              LET n == us[i].nodeId
                  cur == MergedOver(Mid(us, i - 1), n, clientNow)
              IN /\ n \in DOMAIN Mid(us, i)
                 /\ Keeps(cur, Mid(us, i)[n], stateUpdateOf(us[i]), Frame)
                 /\ ReplacesLogs(Mid(us, i)[n], stateUpdateOf(us[i]))

(***************************************************************************)
(* C18 as stated: for updateNodeState and for each patch of a batch, every *)
(* field that the patch does not have keeps the entity's current value     *)
(* (timestamp included), a logs list of the patch replaces the stored list *)
(* and is then truncated, and a first patch for an id is merged over       *)
(* { status: "idle", logs: [] }.                                           *)
(***************************************************************************)
C18_PatchSemantics_AsStated ==
  [][ UpdateObeys(AllFields) /\ BatchObeys(AllFields) ]_allVars

(***************************************************************************)
(* C18, amended: as above for every field other than timestamp; the        *)
(* timestamp of a patched entity is set by the call even when the patch    *)
(* has none.                                                               *)
(***************************************************************************)
C18_PatchSemantics ==
  [][ UpdateObeys(AllFields \ { "timestamp" })
      /\ BatchObeys(AllFields \ { "timestamp" }) ]_allVars

\* a batch patched a running entity with a timestamp only and created the
\* other entity from the default: status, startTime and logs are kept
C18_Witness ==
  /\ storeOp.op = "batch"
  /\ storeOp.updates = << NodeStateUpdate("n1", PatchTime),
                          NodeStateUpdate("n2", PatchTime) >>
  /\ DOMAIN nodeStates = { "n1", "n2" }
  /\ nodeStates["n1"].status = "running"
  /\ nodeStates["n1"].startTime = 1
  /\ nodeStates["n1"].logs = ShortLogs
  /\ nodeStates["n1"].timestamp = 5
  /\ nodeStates["n2"] = [ status |-> "idle", logs |-> << >>, timestamp |-> 5 ]

\* the optional payload fields, other than logs, that an event may omit
OmittableFields ==
  { "status", "startTime", "endTime", "error", "result", "progress" }

\* the fields of OmittableFields that the event's payload does not carry are
\* the same in cur and new
KeepsOmitted(cur, new, event) ==
  \A k \in OmittableFields \ DOMAIN payloadOf(event) :
     Field(new, k) = Field(cur, k)

(***************************************************************************)
(* C19: partial events do not erase state.  When the client applies a node *)
(* event, alone or inside a batch, whose payload omits an optional field   *)
(* (status, startTime, endTime, error, result, progress) or that has no    *)
(* payload, the entity's stored value of each omitted field is the same    *)
(* after the event as before it.                                           *)
(***************************************************************************)
C19_PartialEventsKeepState ==
  [][ /\ storeOp'.op = "nodeEvent" =>
           LET e == storeOp'.event
           IN KeepsOmitted(MergedOver(nodeStates, e.nodeId, clientNow),
                           nodeStates'[e.nodeId], e)
      /\ storeOp'.op = "nodeEventsBatch" =>
           LET es == storeOp'.events
               us == mapParseNodeEvent(es)
           IN \A i \in DOMAIN es :
                 KeepsOmitted(MergedOver(Mid(us, i - 1), es[i].nodeId, clientNow),
                              Mid(us, i)[es[i].nodeId], es[i])
    ]_allVars

(***************************************************************************)
(* C20: updateNodeState(nodeId, patch) stores the patch's timestamp when   *)
(* the patch has one, and the current time only when it has none.          *)
(***************************************************************************)
C20_UpdateTimestamp ==
  [][ storeOp'.op = "update" =>
        LET patch == storeOp'.update
        IN nodeStates'[storeOp'.nodeId].timestamp =
              IF "timestamp" \in DOMAIN patch.def THEN patch.def.timestamp
              ELSE clientNow
    ]_allVars

\* the statuses that end an execution attempt
TerminalStatuses == { "completed", "error" }

\* the step applies node events to the store, one or a batch
AppliesEvents == storeOp'.op \in { "nodeEvent", "nodeEventsBatch" }

(***************************************************************************)
(* C21: terminal statuses.  Once an entity's stored status is completed or *)
(* error, applying node events (by updateNodeState or by                   *)
(* batchUpdateNodeStates) does not change that status; only the reset at   *)
(* the start of a new run removes it.                                      *)
(***************************************************************************)
C21_TerminalStatus ==
  [][ AppliesEvents =>
        \A n \in DOMAIN nodeStates :
           nodeStates[n].status \in TerminalStatuses =>
              /\ n \in DOMAIN nodeStates'
              /\ nodeStates'[n].status = nodeStates[n].status
    ]_allVars

(***************************************************************************)
(* C22: reset before admission.  Handling "workflow:started" leaves the    *)
(* state map empty; every handler other than the two node event handlers   *)
(* leaves the map as it is, so the map stays empty from "started" until    *)
(* the first node event that follows; and no handler other than "started"  *)
(* removes an entry from the map.                                          *)
(***************************************************************************)
C22_ResetBeforeAdmission ==
  [][ /\ storeOp'.op = "started" =>
           /\ nodeStates' = EmptyMap
           /\ Last(published') = EmptyMap
      /\ (storeOp'.op # "started" /\ ~AppliesEvents) => nodeStates' = nodeStates
      /\ storeOp'.op # "started" => DOMAIN nodeStates \subseteq DOMAIN nodeStates'
    ]_allVars

\* "started" of a second run arrived while the map held entries of the first
C22_Witness ==
  /\ storeOp.op = "started"
  /\ execution.workflowId = WorkflowIdAt(2)
  /\ nodeStates = EmptyMap
  /\ Len(published) = 4
  /\ DOMAIN published[3] = { "n1", "n2" }

(***************************************************************************)
(* C23: getNodeState is a pure read.  It returns the stored state of the   *)
(* id, or undefined ("no state", not a made-up idle state) when the map    *)
(* has no entry for the id; it hands nothing to set() and leaves the map   *)
(* as it is.                                                               *)
(***************************************************************************)
C23_GetIsPureRead ==
  [][ storeOp'.op = "get" =>
        /\ nodeStates' = nodeStates
        /\ published' = << >>
        /\ storeOp'.nodeId \in DOMAIN nodeStates =>
              storeOp'.result = nodeStates[storeOp'.nodeId]
        /\ storeOp'.nodeId \notin DOMAIN nodeStates =>
              DOMAIN storeOp'.result = {}
    ]_allVars

\* a read of an id without state, while the other id has one
C23_Witness ==
  /\ storeOp.op = "get"
  /\ storeOp.nodeId = "n2"
  /\ DOMAIN storeOp.result = {}
  /\ DOMAIN nodeStates = { "n1" }

(***************************************************************************)
(* C24: per-entity timestamp monotonicity.  As long as the node events of  *)
(* every entity arrive with non-decreasing envelope timestamps, applying   *)
(* an event, alone or in a batch, never lowers the stored timestamp of an  *)
(* entity.                                                                 *)
(***************************************************************************)
C24_TimestampMonotonic ==
  [][ (AppliesEvents /\ envelopes'.ordered) =>
        \A n \in DOMAIN nodeStates \cap DOMAIN nodeStates' :
           nodeStates'[n].timestamp >= nodeStates[n].timestamp
    ]_allVars

(***************************************************************************)
(* C25: status-dependent fields.  In every state that the client reaches   *)
(* by handling node events that pass the envelope schema, an entity has an *)
(* error or an errorStack only if its status is error, and a result only   *)
(* if its status is completed.                                             *)
(***************************************************************************)
C25_StatusDependentFields ==
  \A n \in DOMAIN nodeStates :
     /\ ("error" \in DOMAIN nodeStates[n] \/ "errorStack" \in DOMAIN nodeStates[n])
           => nodeStates[n].status = "error"
     /\ "result" \in DOMAIN nodeStates[n] => nodeStates[n].status = "completed"

(***************************************************************************)
(* The client's transport session (class SocketService of                  *)
(* frontend/src/services/socketService.ts) and the Socket.IO v4 client     *)
(* socket that it owns.  Of the socket the model keeps what the service    *)
(* relies on: `connected`; the send buffer, which holds what is emitted    *)
(* while the socket is not connected and is written to the connection when *)
(* the socket connects, before the "connect" listeners run; and the        *)
(* manager's reconnection (`active` while it keeps trying, `attempts`).    *)
(* A v4 socket emits connect, connect_error and disconnect; reconnect and  *)
(* reconnect_attempt are events of the manager, so the listeners that the  *)
(* service registers for them on the socket are never called.              *)
(***************************************************************************)
\* number of commands issued
MaxSends == 3
\* number of calls of connect()
MaxConnects == 2

\* maxReconnectAttempts: config.maxReconnectAttempts || 5
DefaultMaxReconnectAttempts == 5

\* the commands of executeWorkflow and cancelWorkflow
CommandNames == { "workflow:execute", "workflow:cancel" }

\* io(this.config.url, { reconnection: true, ... }): a socket that is
\* connecting
ioClient ==
  [ connected |-> FALSE, sendBuffer |-> << >>, active |-> TRUE, attempts |-> 0 ]

\* the session as one record, so that the methods can call each other
Session ==
  [ socket |-> socket, isQueueing |-> isQueueing, eventQueue |-> eventQueue,
    reconnectAttempts |-> reconnectAttempts, wire |-> wire ]

\* socket.emit(event, data): written to the connection when the socket is
\* connected, kept in the socket's send buffer otherwise
socketEmit(ss, event, data) ==
  IF ss.socket.connected
  THEN [ss EXCEPT !.wire = Append(@, [ event |-> event, data |-> data ])]
  ELSE [ss EXCEPT !.socket.sendBuffer =
                     Append(@, [ event |-> event, data |-> data ])]

\* this.eventQueue.push({ event: eventName, data })
pushEvent(ss, eventName, data) ==
  [ss EXCEPT !.eventQueue = Append(@, [ event |-> eventName, data |-> data ])]

\* emitEvent(eventName, data)
emitEvent(ss, eventName, data) ==
  IF ss.socket = NullSocket THEN pushEvent(ss, eventName, data)
  ELSE IF ss.isQueueing THEN pushEvent(ss, eventName, data)
  ELSE socketEmit(ss, eventName, data)

\* queue.forEach(({ event, data }) => { if (this.socket?.connected) ... })
RECURSIVE forEachQueued(_, _)
forEachQueued(ss, queue) ==
  IF queue = << >> THEN ss
  ELSE forEachQueued(
         IF ss.socket # NullSocket /\ ss.socket.connected
         THEN socketEmit(ss, Head(queue).event, Head(queue).data)
         ELSE ss,
         Tail(queue))

\* flushEventQueue()
flushEventQueue(ss) ==
  IF Len(ss.eventQueue) = 0 THEN ss
  ELSE forEachQueued([ss EXCEPT !.eventQueue = << >>], ss.eventQueue)

\* the socket connects: it writes its send buffer to the connection
socketOnConnect(ss) ==
  [ss EXCEPT !.socket.connected = TRUE,
             !.socket.attempts = 0,
             !.wire = @ \o ss.socket.sendBuffer,
             !.socket.sendBuffer = << >>]

\* the session after a method or listener
CommitSession(ss) ==
  /\ socket' = ss.socket
  /\ isQueueing' = ss.isQueueing
  /\ eventQueue' = ss.eventQueue
  /\ reconnectAttempts' = ss.reconnectAttempts
  /\ wire' = ss.wire

\* resolve() / reject(error) of the promise of connect(): a promise settles
\* once, a later resolve or reject changes nothing
settle(promise, outcome) == IF promise = "pending" THEN outcome ELSE promise

\* the emitter, the server and the store take no part
TransportInit == StoreInit

\* number of calls of connect() so far: each created one socket
Created == Len(replaced) + (IF socket = NullSocket THEN 0 ELSE 1)

\* connect(): creates a socket, assigns it to this.socket and registers the
\* listeners on it.  The socket that this.socket named before is neither
\* closed nor stripped of its listeners: it goes on as it was.
Connect ==
  /\ Created < MaxConnects
  /\ CommitSession([Session EXCEPT !.socket = ioClient])
  /\ connectPromise' = "pending"
  /\ replaced' = IF socket = NullSocket THEN replaced
                 ELSE Append(replaced, [ socket |-> socket,
                                         promise |-> connectPromise ])
  /\ UNCHANGED << vars, serverVars, storeVars, issued, held >>

\* the socket connects, for the first time or again: it writes its send
\* buffer, then the "connect" listener runs: reconnectAttempts = 0,
\* isQueueing = false, flushEventQueue()
OnConnect ==
  /\ socket # NullSocket
  /\ ~socket.connected
  /\ socket.active
  /\ CommitSession(flushEventQueue(
        [socketOnConnect(Session) EXCEPT !.reconnectAttempts = 0,
                                         !.isQueueing = FALSE]))
  /\ connectPromise' = settle(connectPromise, "fulfilled")
  /\ UNCHANGED << vars, serverVars, storeVars, issued, held, replaced >>

\* a connection attempt fails: the "connect_error" listener logs and rejects
\* the promise of connect(); the manager tries again until it has made
\* maxReconnectAttempts reconnection attempts, then gives up
OnConnectError ==
  /\ socket # NullSocket
  /\ ~socket.connected
  /\ socket.active
  /\ CommitSession(
       [Session EXCEPT !.socket.attempts = @ + 1,
                       !.socket.active =
                          socket.attempts < DefaultMaxReconnectAttempts])
  /\ connectPromise' = settle(connectPromise, "rejected")
  /\ UNCHANGED << vars, serverVars, storeVars, issued, held, replaced >>

\* the connection is lost: the socket is no longer connected and the
\* manager starts to reconnect; the "disconnect" listener sets
\* isQueueing = true
OnDisconnect ==
  /\ socket # NullSocket
  /\ socket.connected
  /\ CommitSession([Session EXCEPT !.socket.connected = FALSE,
                                   !.isQueueing = TRUE])
  /\ UNCHANGED << vars, serverVars, storeVars, issued, held, connectPromise,
                  replaced >>

\* disconnect(): socket.disconnect() closes the socket for good; the
\* "disconnect" listener runs only if the socket was connected
Disconnect ==
  /\ socket # NullSocket
  /\ CommitSession([Session EXCEPT !.socket.connected = FALSE,
                                   !.socket.active = FALSE,
                                   !.isQueueing = @ \/ socket.connected])
  /\ UNCHANGED << vars, serverVars, storeVars, issued, held, connectPromise,
                  replaced >>

\* a replaced socket connects: it writes its own send buffer, then its
\* "connect" listener runs on the service: reconnectAttempts = 0,
\* isQueueing = false, flushEventQueue() (which emits on this.socket, if
\* that one is connected), resolve() of the socket's own promise
OnReplacedConnect(k) ==
  /\ k \in DOMAIN replaced
  /\ ~replaced[k].socket.connected
  /\ replaced[k].socket.active
  /\ CommitSession(flushEventQueue(
        [Session EXCEPT !.wire = @ \o replaced[k].socket.sendBuffer,
                        !.reconnectAttempts = 0,
                        !.isQueueing = FALSE]))
  /\ replaced' = [replaced EXCEPT
                    ![k].socket = [@ EXCEPT !.connected = TRUE, !.attempts = 0,
                                            !.sendBuffer = << >>],
                    ![k].promise = settle(@, "fulfilled")]
  /\ UNCHANGED << vars, serverVars, storeVars, issued, held, connectPromise >>

\* a connection attempt of a replaced socket fails: its "connect_error"
\* listener rejects the socket's own promise
OnReplacedConnectError(k) ==
  /\ k \in DOMAIN replaced
  /\ ~replaced[k].socket.connected
  /\ replaced[k].socket.active
  /\ replaced' = [replaced EXCEPT
                    ![k].socket = [@ EXCEPT
                       !.attempts = @ + 1,
                       !.active = replaced[k].socket.attempts
                                     < DefaultMaxReconnectAttempts],
                    ![k].promise = settle(@, "rejected")]
  /\ UNCHANGED << vars, serverVars, storeVars, socket, isQueueing, eventQueue,
                  reconnectAttempts, wire, issued, held, connectPromise >>

\* the connection of a replaced socket is lost: its "disconnect" listener
\* sets isQueueing = true on the service
OnReplacedDisconnect(k) ==
  /\ k \in DOMAIN replaced
  /\ replaced[k].socket.connected
  /\ CommitSession([Session EXCEPT !.isQueueing = TRUE])
  /\ replaced' = [replaced EXCEPT ![k].socket.connected = FALSE]
  /\ UNCHANGED << vars, serverVars, storeVars, issued, held, connectPromise >>

\* executeWorkflow(nodes, edges) / cancelWorkflow(workflowId): emitEvent with
\* the command's name; the payload is told apart by the command's number
SendCommand(name) ==
  /\ issued < MaxSends
  /\ CommitSession(emitEvent(Session, name, issued + 1))
  /\ issued' = issued + 1
  /\ held' = IF isQueueing /\ ~socket.connected THEN held \cup { issued + 1 }
             ELSE held
  /\ UNCHANGED << vars, serverVars, storeVars, connectPromise, replaced >>

\* what the socket service does between the calls of its commands
SessionNext ==
  \/ Connect
  \/ OnConnect
  \/ OnConnectError
  \/ OnDisconnect
  \/ Disconnect
  \/ \E k \in 1..MaxConnects : OnReplacedConnect(k)
  \/ \E k \in 1..MaxConnects : OnReplacedConnectError(k)
  \/ \E k \in 1..MaxConnects : OnReplacedDisconnect(k)

TransportNext ==
  \/ SessionNext
  \/ \E name \in CommandNames : SendCommand(name)

TransportSpec == TransportInit /\ [][TransportNext]_allVars

(***************************************************************************)
(* Vocabulary of the claims about the transport session.                   *)
(***************************************************************************)
\* the numbers of the commands written to the connection, in order
WireOrder == [ i \in 1..Len(wire) |-> wire[i].data ]

\* command c has been written to the connection
OnWire(c) == \E i \in 1..Len(wire) : wire[i].data = c

\* command a was written to the connection before command b
SentBefore(a, b) ==
  \E i, j \in 1..Len(wire) : i < j /\ wire[i].data = a /\ wire[j].data = b

\* this step is the one in which the socket connects
Connects == socket # NullSocket /\ ~socket.connected /\ socket'.connected

\* C26: commands issued while the session is disconnected and queueing are
\* written to the connection only in a step in which the session's socket
\* connects, and of two such commands the one issued later is written only
\* after the one issued earlier
C26_ReplayOrder ==
  [][ /\ \A c \in held' :
           (\E i \in 1..Len(wire') : wire'[i].data = c) /\ ~OnWire(c)
             => Connects
      /\ \A a, b \in held' :
           a < b => (OnWire(b) => SentBefore(a, b))' ]_allVars

\* C27: over every sequence of connect(), connection, connection error, lost
\* connection, disconnect() and commands, the commands are written to the
\* connection in the order in which they were issued
C27_GlobalFifo ==
  \A i, j \in 1..Len(wire) : i < j => WireOrder[i] < WireOrder[j]

\* the number of entries of a sequence of commands that carry command c
RECURSIVE Count(_, _)
Count(commands, c) ==
  IF commands = << >> THEN 0
  ELSE (IF Head(commands).data = c THEN 1 ELSE 0) + Count(Tail(commands), c)

\* C28: every command handed to the session is either still in the outbound
\* queue and not on the connection, or no longer in the queue and on the
\* connection exactly once
C28_NeverLostOrDuplicated ==
  \A c \in 1..issued :
    \/ Count(eventQueue, c) = 1 /\ Count(wire, c) = 0
    \/ Count(eventQueue, c) = 0 /\ Count(wire, c) = 1

\* the session is connected: it has a socket and the socket is connected
Connected == socket # NullSocket /\ socket.connected

\* C29: in every state of the session, from construction on, isQueueing is
\* true exactly when the session is not connected
C29_QueueingFlag == isQueueing <=> ~Connected

\* this step is a call of executeWorkflow or cancelWorkflow
Sends == issued' = issued + 1

\* C30: a command is written to the connection at once if and only if the
\* session is connected and not queueing; in every other state it is
\* appended to the outbound queue and nothing is written
C30_SendOrQueue ==
  [][ Sends =>
        \E name \in CommandNames :
          LET command == [ event |-> name, data |-> issued' ]
          IN  IF Connected /\ ~isQueueing
              THEN wire' = Append(wire, command) /\ eventQueue' = eventQueue
              ELSE eventQueue' = Append(eventQueue, command) /\ wire' = wire
    ]_allVars

\* this step is a failed connection attempt
ConnectionError ==
  /\ socket # NullSocket
  /\ socket' # NullSocket
  /\ socket'.attempts = socket.attempts + 1

\* C31: when the socket connects, the call of connect() is resolved, queueing
\* is cleared and the queue is written to the connection; a connection error
\* before the first connection rejects the call; a connection error after
\* the call was resolved rejects nothing and leaves the session queueing
C31_ConnectOutcome ==
  [][ /\ Connects =>
           /\ connectPromise' = "fulfilled"
           /\ ~isQueueing'
           /\ eventQueue' = << >>
           /\ wire' = wire \o socket.sendBuffer \o eventQueue
      /\ ConnectionError /\ connectPromise = "pending" =>
           connectPromise' = "rejected"
      /\ ConnectionError /\ connectPromise = "fulfilled" =>
           /\ connectPromise' = "fulfilled"
           /\ isQueueing /\ isQueueing' ]_allVars

(***************************************************************************)
(* Batches that carry malformed envelopes: one without nodeId, one with    *)
(* timestamp 0, and null in the place of an envelope.                      *)
(***************************************************************************)
MissingIdEvent ==
  [ eventType |-> "running", payload |-> [ status |-> "running" ],
    timestamp |-> 1 ]
ZeroTimestampEvent(n) ==
  [ eventType |-> "start", nodeId |-> n,
    payload |-> [ startTime |-> 1, status |-> "running" ], timestamp |-> 0 ]
MalformedEvents == { MissingIdEvent, NullEvent, ZeroTimestampEvent("n1") }
InboundEvents ==
  { StartEvent(ClientNode("n1"), 1), ProgressEvent("n2", 2) }
    \cup MalformedEvents
InboundLists ==
  { << e >> : e \in InboundEvents }
    \cup { << e, f >> : e \in InboundEvents, f \in InboundEvents }

InboundNext ==
  \/ \E es \in InboundLists : OnNodeEventsBatch(es)
  \/ ClientTick

InboundSpec == StoreInit /\ [][InboundNext]_allVars

\* the envelope shape: an object with an entity id and a positive timestamp
WellFormed(e) ==
  /\ e # NullEvent
  /\ "nodeId" \in DOMAIN e
  /\ e.timestamp > 0

\* the envelopes of a list that have the envelope shape, in order
WellFormedOf(events) == SelectSeq(events, WellFormed)

\* C32: a batch leaves the map as the batch of its well-formed envelopes
\* alone would: a malformed envelope is dropped, creates no state, and the
\* well-formed envelopes of the same batch are merged
C32_MalformedDropped ==
  [][ storeOp'.op = "nodeEventsBatch" =>
        nodeStates' = forEachUpdate(nodeStates,
                        mapParseNodeEvent(WellFormedOf(storeOp'.events)),
                        clientNow) ]_allVars

(***************************************************************************)
(* The commands of the client with their payloads: executeWorkflow(nodes,  *)
(* edges) and cancelWorkflow(workflowId), with payloads that have the      *)
(* command shape and payloads that do not.                                 *)
(***************************************************************************)
\* executeWorkflow(nodes, edges)
executeWorkflow(ss, nodes, edges) ==
  emitEvent(ss, "workflow:execute", [ nodes |-> nodes, edges |-> edges ])

\* cancelWorkflow(workflowId)
cancelWorkflow(ss, workflowId) ==
  emitEvent(ss, "workflow:cancel", [ workflowId |-> workflowId ])

\* number of commands issued with their payloads
MaxOutbound == 2

ExecuteWorkflow(data) ==
  /\ issued < MaxOutbound
  /\ CommitSession(executeWorkflow(Session, data.nodes, data.edges))
  /\ issued' = issued + 1
  /\ UNCHANGED << vars, serverVars, storeVars, held, connectPromise, replaced >>

CancelWorkflow(data) ==
  /\ issued < MaxOutbound
  /\ CommitSession(cancelWorkflow(Session, data.workflowId))
  /\ issued' = issued + 1
  /\ UNCHANGED << vars, serverVars, storeVars, held, connectPromise, replaced >>

OutboundNext ==
  \/ SessionNext
  \/ \E data \in ExecuteData : ExecuteWorkflow(data)
  \/ \E data \in CancelData : CancelWorkflow(data)

OutboundSpec == TransportInit /\ [][OutboundNext]_allVars

\* a command has the command shape of its name
CommandShape(command) ==
  IF command.event = "workflow:execute" THEN ExecuteWorkflowSchema(command.data)
  ELSE CancelWorkflowSchema(command.data)

\* C33: a command that fails the command shape is neither written to the
\* connection nor placed in the outbound queue
C33_OutboundValidation ==
  /\ \A i \in DOMAIN wire : CommandShape(wire[i])
  /\ \A i \in DOMAIN eventQueue : CommandShape(eventQueue[i])

\* the codes of the server's error messages
ErrorCodes == { "VALIDATION_ERROR", "INVALID_REQUEST" }

\* the step just taken handled a command that its schema rejects
RejectsExecute == lastOp'.op = "executeInvalid" /\ vars' # vars
RejectsCancel ==
  lastOp'.op = "cancel" /\ lastOp'.workflowId = NoWorkflowId /\ vars' # vars

\* the step sends one message, an error with a code, to the session of the
\* command, and starts, queues and arms nothing
AnswersError ==
  LET s == lastOp'.socketId
      answer == Last(io'[s])
  IN /\ DeliversOnly(s, answer)
     /\ answer.name = "workflow:error"
     /\ answer.payload.code \in ErrorCodes
     /\ RejectsExecute => answer.payload.code = "VALIDATION_ERROR"
     /\ UNCHANGED << runs, eventQueues, batchTimers, timers >>

\* C34: a malformed execute or cancel command is answered on its session by
\* one error message with a code (VALIDATION_ERROR for execute) and by
\* nothing else: no started, no cancelled, no run, no node event
C34_ValidationError ==
  [][ RejectsExecute \/ RejectsCancel => AnswersError ]_allVars

\* a session was sent an error for a malformed command and, after it, the
\* started message of a later command
C34_Witness ==
  \E s \in ServerSockets :
    \E i, j \in DOMAIN io[s] :
       /\ i < j
       /\ io[s][i].name = "workflow:error"
       /\ io[s][i].payload.code = "VALIDATION_ERROR"
       /\ io[s][j].name = "workflow:started"

\* updateNodeState called for each patch of a list, in list order
RECURSIVE updateEach(_, _, _)
updateEach(st, updates, now) ==
  IF updates = << >> THEN st
  ELSE updateEach(updateNodeState(st, Head(updates).nodeId,
                                  stateUpdateOf(Head(updates)), now),
                  Tail(updates), now)

\* C35: batchUpdateNodeStates(patches) leaves the map that updateNodeState,
\* called for each patch in list order, leaves
C35_BatchRefinesUpdates ==
  [][ storeOp'.op = "batch" =>
        nodeStates' = updateEach(Store, storeOp'.updates, clientNow).nodeStates
    ]_allVars

\* the ids that the patches of a list name
IdsOf(updates) == { updates[i].nodeId : i \in DOMAIN updates }

\* the step adds entries for ids at most and leaves every other entry as it
\* was
ChangesOnly(ids) ==
  /\ DOMAIN nodeStates' = DOMAIN nodeStates \cup ids
  /\ \A n \in DOMAIN nodeStates \ ids : nodeStates'[n] = nodeStates[n]

\* C36: updateNodeState(id, patch) changes the entry of id only,
\* batchUpdateNodeStates(patches) the entries of the ids in patches only, and
\* an empty batch leaves the map as it was
C36_Frame ==
  [][ /\ storeOp'.op = "update" => ChangesOnly({ storeOp'.nodeId })
      /\ storeOp'.op = "batch" => ChangesOnly(IdsOf(storeOp'.updates))
      /\ storeOp'.op = "batch" /\ storeOp'.updates = << >>
           => nodeStates' = nodeStates ]_allVars

\* an update of n1 at a later time than the one at which n2 was written
C36_Witness ==
  /\ storeOp.op = "update"
  /\ storeOp.nodeId = "n1"
  /\ DOMAIN nodeStates = { "n1", "n2" }
  /\ nodeStates["n2"].timestamp < nodeStates["n1"].timestamp
  /\ nodeStates["n1"].timestamp = clientNow

\* message m carries node events of workflow w
NodeEventsOf(m, w) ==
  /\ m.name \in { BatchName, ImmediateName }
  /\ m.payload.workflowId = w

\* C37: on every session, no message with node events of a run is sent after
\* the run's "workflow:complete" message
C37_CompleteAfterNodeEvents ==
  \A s \in ServerSockets :
    \A i, j \in DOMAIN io[s] :
       io[s][i].name = "workflow:complete" /\ i < j
         => ~NodeEventsOf(io[s][j], io[s][i].payload.workflowId)

(***************************************************************************)
(* The runs of one session, as the client sees them: the listeners handle  *)
(* "workflow:started" and "workflow:node-events-batch" of any workflowId   *)
(* in any order; the server names the runs workflow-<Date.now()>, runs     *)
(* them concurrently, and names two runs of one millisecond alike.         *)
(***************************************************************************)
\* the time in the id of a run: Date.now() of the server when it accepted
\* the run's command
TimeOf(workflowId) == CHOOSE t \in 1..MaxNow : WorkflowIdAt(t) = workflowId

\* the payloads of "workflow:node-events-batch": { workflowId, events, count }
RunEvents(t) ==
  { << StartEvent(ClientNode("n1"), t) >>,
    << CompleteEvent(ClientNode("n1"), t, t), StartEvent(ClientNode("n2"), t) >> }
NodeEventsBatchData(t) ==
  { [ workflowId |-> WorkflowIdAt(t), events |-> es, count |-> Len(es) ] :
      es \in RunEvents(t) }

\* socket.on("workflow:node-events-batch") with the whole payload
OnRunBatch(data) ==
  /\ CommitStore(onNodeEventsBatch(Store, data.events, clientNow))
  /\ storeOp' = [ op |-> "nodeEventsBatch", events |-> data.events,
                  workflowId |-> data.workflowId ]
  /\ envelopes' = Received(envelopes, data.events)
  /\ UNCHANGED << vars, serverVars, transportVars, execution, clientNow, logSeq >>

RunsNext ==
  \/ \E t \in 1..MaxNow : OnStarted(WorkflowIdAt(t))
  \/ \E t \in 1..MaxNow : \E data \in NodeEventsBatchData(t) : OnRunBatch(data)
  \/ \E name \in { "complete", "error", "cancelled" } : OnFinished(name)
  \/ ClientTick

RunsSpec == StoreInit /\ [][RunsNext]_allVars

\* C38: once "workflow:started" of a run has been handled, a batch of a run
\* that the server started earlier (its id carries an earlier time) changes
\* nothing in the map
C38_NoCrossRun ==
  [][ /\ storeOp'.op = "nodeEventsBatch"
      /\ "workflowId" \in DOMAIN execution
      /\ TimeOf(storeOp'.workflowId) < TimeOf(execution.workflowId)
      => nodeStates' = nodeStates ]_allVars

\* message m is the named message of workflow w
IsOf(m, name, w) == m.name = name /\ m.payload.workflowId = w

\* C39: once "workflow:cancelled" has been sent for a run that had started,
\* the session is sent no further node events and no "workflow:complete" of
\* that run
C39_CancelStopsRun ==
  \A s \in ServerSockets :
    \A h, i, j \in DOMAIN io[s] :
      LET w == io[s][h].payload.workflowId
      IN  /\ h < i /\ i < j
          /\ io[s][h].name = "workflow:started"
          /\ IsOf(io[s][i], "workflow:cancelled", w)
          => /\ ~NodeEventsOf(io[s][j], w)
             /\ ~IsOf(io[s][j], "workflow:complete", w)

\* C40: two runs of one session have different workflowIds, and so
\* different queue keys
C40_DistinctRunIds ==
  \A q, r \in DOMAIN runs :
     q # r /\ runs[q].socketId = runs[r].socketId
       => /\ runs[q].workflowId # runs[r].workflowId
          /\ queueKey(runs[q].socketId, runs[q].workflowId)
               # queueKey(runs[r].socketId, runs[r].workflowId)

====
